---- MODULE Spec2Model ----
(***************************************************************************)
(* MeridianbetLiveService: the live-feed protocol client (connection,      *)
(* handshake, heartbeat, reconnect, subscriptions) and the state merger.   *)
(* Every handler of the class is one action; a handler runs to completion  *)
(* (one JavaScript task together with the promise continuations it         *)
(* releases).  The transport (the ws library), Node's timers, the REST     *)
(* upstream and the caller of the public API are the environment.          *)
(***************************************************************************)
EXTENDS Integers, Sequences, FiniteSets, TLC

(* ------------------------------ bounds -------------------------------- *)
\* WebSocket objects that may exist at once (a closed one is collected).
MaxConns == 2
\* Event ids the upstream may name: 1..MaxEventId.
MaxEventId == 2
\* Timer handles of one kind that Node may hold at once.
MaxTimers == 2
\* The wall clock runs from 0 to MaxTime.
MaxTime == 1

\* Game template ids of the market groups: 1..MaxGroupId.
MaxGroupId == 2
\* Market ids within a group: 1..MaxMarketId.
MaxMarketId == 2
\* Trailing ordinals of selection ids: 0..MaxOrdinal.
MaxOrdinal == 2

\* Concurrent callers of the token service and of the REST fetches.
MaxCallers == 2
\* Refresh promises that may be held at once.
MaxPromises == 2
\* Access tokens the upstream issues: 1..MaxTokens.
MaxTokens == 2
\* The requests of one fetch that are followed.
MaxRequests == 3
\* The events of the longest list a bulk pass is given.
MaxFetched == 7
MaxClients == 5

ConnIds == 1..MaxConns
CallerIds == 1..MaxCallers
PromiseIds == 1..MaxPromises
EventIds == 1..MaxEventId
TimerIds == 1..MaxTimers

(* ------------------------- program constants -------------------------- *)
NoConn == 0
NoTimer == 0
NoSport == 0
NoSid == "null"
\* The value of a field the JSON object does not have.
Undefined == "undefined"
DefaultPingInterval == 25000
Sports == {58}
Sids == {"abc"}
PingIntervals == {20000}

VARIABLES
  \* fields of MeridianbetLiveService
  ws, pingInterval, pingTimer, reconnectTimer, isConnected,
  isHandshakeComplete, sessionId, subscribedEvents, currentSportId,
  liveEvents, liveMarkets, lastUpdateTime,
  \* the heap: which market arrays of liveEvents are the very objects held
  \* by liveMarkets (pairs <<eventId, index of the group>>)
  sharedMarkets,
  \* Node's timer table: the live setInterval / setTimeout handles
  pingLive, reconnectLive,
  \* a setTimeout(checkHandshake, 100) of a waitForHandshake call whose
  \* promise has settled is pending
  checkHandshakeLive,
  \* the WebSocket objects created by connectWebSocket
  conns,
  \* the startLiveExtraction call in flight (its await position)
  start,
  \* the wall clock read by new Date()
  now,
  \* the process died of an uncaught exception
  crashed,
  \* server.ts: extractionState.isRunning (live mode)
  isRunning,
  \* fields of MeridianbetTokenService
  tokenData, refreshInProgress, refreshPromise,
  \* the promises performTokenRefresh has returned
  promises,
  \* the calls of token service methods and of REST fetches in flight
  calls,
  \* the bulk pass over the events' markets in flight, or the last one
  bulk,
  \* server.ts: extractionState.clients, and the stream requests that have
  \* not closed
  clients, streams

liveVars == <<ws, pingInterval, pingTimer, reconnectTimer, isConnected,
              isHandshakeComplete, sessionId, subscribedEvents,
              currentSportId, liveEvents, liveMarkets, lastUpdateTime,
              sharedMarkets, pingLive, reconnectLive, checkHandshakeLive,
              conns, start, now, crashed, isRunning>>

sseVars == <<clients, streams>>

restVars == <<tokenData, refreshInProgress, refreshPromise, promises, calls>>

vars == <<ws, pingInterval, pingTimer, reconnectTimer, isConnected,
          isHandshakeComplete, sessionId, subscribedEvents, currentSportId,
          liveEvents, liveMarkets, lastUpdateTime, sharedMarkets, pingLive,
          reconnectLive, checkHandshakeLive, conns, start, now, crashed,
          isRunning, tokenData, refreshInProgress, refreshPromise, promises, calls,
          bulk, clients, streams>>

NoSub == [by |-> "none", written |-> FALSE, ready |-> FALSE, sport |-> NoSport,
          frames |-> <<>>, before |-> <<>>, sunk |-> 0]
\* What the Sink was last given, when it was given nothing.
NoSnap == [none |-> TRUE]
NoObs == [sub |-> NoSub, err |-> "", sink |-> 0, snap |-> NoSnap, call |-> "",
          ping |-> "none"]

(* The whole state as one value, so that a handler is a function on it.    *)
(* Besides the state the value carries what the handler does to the outside *)
(* while it runs (obs): the subscription frames it hands to ws.send (sub),  *)
(* the error it gives to onErrorCallback (err), the number of times it      *)
(* invokes the Sink (sink) and what it last gave it (snap), what became of  *)
(* the "2" it handed to ws.send (ping), how the                             *)
(* startLiveExtraction call ended if it ended here (call); and the          *)
(* exception in flight (thrown).                                            *)
World ==
  [ws |-> ws, pingInterval |-> pingInterval, pingTimer |-> pingTimer,
   reconnectTimer |-> reconnectTimer, isConnected |-> isConnected,
   isHandshakeComplete |-> isHandshakeComplete, sessionId |-> sessionId,
   subscribedEvents |-> subscribedEvents, currentSportId |-> currentSportId,
   liveEvents |-> liveEvents, liveMarkets |-> liveMarkets,
   lastUpdateTime |-> lastUpdateTime, sharedMarkets |-> sharedMarkets,
   pingLive |-> pingLive,
   reconnectLive |-> reconnectLive,
   checkHandshakeLive |-> checkHandshakeLive, conns |-> conns,
   start |-> start,
   now |-> now, crashed |-> crashed, isRunning |-> isRunning,
   obs |-> NoObs, thrown |-> ""]

(* WebSocket objects have no identity beyond the references held to them  *)
(* (this.ws, the awaiting start call): the table of sockets is kept sorted *)
(* by content, free slots last, so that two states that differ only in    *)
(* which slot holds which socket are one state.                           *)
StRank(st) ==
  CASE st = "connecting" -> 0 [] st = "open" -> 1 [] st = "closing" -> 2
    [] st = "aborting" -> 3 [] st = "errored" -> 4 [] st = "closed" -> 5
    [] OTHER -> 6
PromiseRank(p) == CASE p = "pending" -> 0 [] p = "settled" -> 1 [] OTHER -> 2
AwaiterRank(a) == CASE a = "start" -> 0 [] a = "reconnect" -> 1 [] OTHER -> 2
Bit(b) == IF b THEN 1 ELSE 0

SortKey(w, c) ==
  LET r == w.conns[c]
  IN  (((((StRank(r.st) * 2 + Bit(r.hs)) * 3 + PromiseRank(r.promise)) * 2
          + Bit(r.timeout)) * 3 + AwaiterRank(r.awaiter)) * 2
        + Bit(w.ws = c)) * 2 + Bit(w.start.conn = c)

\* k: the sort key of every slot; the result: the slot each one moves to.
SortedSlots(k) ==
  [c \in ConnIds |->
     1 + Cardinality({d \in ConnIds : k[d] < k[c] \/ (k[d] = k[c] /\ d < c)})]

Canon(w) ==
  CHOOSE r \in
    {[w EXCEPT !.conns = [i \in ConnIds |->
                            w.conns[CHOOSE c \in ConnIds : p[c] = i]],
               !.ws = IF w.ws = NoConn THEN NoConn ELSE p[w.ws],
               !.start.conn = IF w.start.conn = NoConn THEN NoConn
                              ELSE p[w.start.conn]] :
       p \in {SortedSlots([c \in ConnIds |-> SortKey(w, c)])}} : TRUE

CommitLive(v) ==
  \E u \in {v} : \E w \in {Canon(u)} :
  /\ ws' = w.ws
  /\ pingInterval' = w.pingInterval
  /\ pingTimer' = w.pingTimer
  /\ reconnectTimer' = w.reconnectTimer
  /\ isConnected' = w.isConnected
  /\ isHandshakeComplete' = w.isHandshakeComplete
  /\ sessionId' = w.sessionId
  /\ subscribedEvents' = w.subscribedEvents
  /\ currentSportId' = w.currentSportId
  /\ liveEvents' = w.liveEvents
  /\ liveMarkets' = w.liveMarkets
  /\ lastUpdateTime' = w.lastUpdateTime
  /\ sharedMarkets' = w.sharedMarkets
  /\ pingLive' = w.pingLive
  /\ reconnectLive' = w.reconnectLive
  /\ checkHandshakeLive' = w.checkHandshakeLive
  /\ conns' = w.conns
  /\ start' = w.start
  /\ now' = w.now
  /\ crashed' = w.crashed
  /\ isRunning' = w.isRunning

Commit(v) ==
  /\ CommitLive(v)
  /\ UNCHANGED restVars
  /\ UNCHANGED bulk
  /\ UNCHANGED sseVars

\* The state is w.
Is(w) ==
  /\ ws = w.ws
  /\ pingInterval = w.pingInterval
  /\ pingTimer = w.pingTimer
  /\ reconnectTimer = w.reconnectTimer
  /\ isConnected = w.isConnected
  /\ isHandshakeComplete = w.isHandshakeComplete
  /\ sessionId = w.sessionId
  /\ subscribedEvents = w.subscribedEvents
  /\ currentSportId = w.currentSportId
  /\ liveEvents = w.liveEvents
  /\ liveMarkets = w.liveMarkets
  /\ lastUpdateTime = w.lastUpdateTime
  /\ sharedMarkets = w.sharedMarkets
  /\ pingLive = w.pingLive
  /\ reconnectLive = w.reconnectLive
  /\ checkHandshakeLive = w.checkHandshakeLive
  /\ conns = w.conns
  /\ start = w.start
  /\ now = w.now
  /\ crashed = w.crashed
  /\ isRunning = w.isRunning

(* ----------------------------- helpers -------------------------------- *)
Range(s) == {s[i] : i \in 1..Len(s)}

Throw(w, msg) == [w EXCEPT !.thrown = msg]
Caught(w) == [w EXCEPT !.thrown = ""]

\* A WebSocket slot that holds no object.
FreeConn ==
  [st |-> "free", hs |-> FALSE, promise |-> "none", timeout |-> FALSE,
   awaiter |-> "none"]

FreshConn(cs) == CHOOSE c \in ConnIds :
  /\ cs[c].st = "free"
  /\ \A d \in ConnIds : cs[d].st = "free" => c <= d

FreshTimer(live) ==
  IF \E t \in TimerIds : t \notin live
  THEN CHOOSE t \in TimerIds : t \notin live /\ \A u \in TimerIds : u \notin live => t <= u
  ELSE MaxTimers

\* A startLiveExtraction call: where it waits (pc), the socket whose connect
\* promise it awaits, its sportId argument and the events it fetched.  A call
\* that returned leaves nothing behind: pc is "idle" again.
IdleStart ==
  [pc |-> "idle", conn |-> NoConn, sport |-> NoSport, events |-> <<>>]

\* onErrorCallback is installed by server.ts before any request is served.
onErrorCallback(w, msg) == [w EXCEPT !.obs.err = msg]

(* ------------------------------ timers -------------------------------- *)
clearPingTimer(w) ==
  IF w.pingTimer # NoTimer
  THEN [w EXCEPT !.pingLive = @ \ {w.pingTimer}, !.pingTimer = NoTimer]
  ELSE w

\* startPingTimer without its first line.
startPingTimerLeak(w) ==
  LET t == FreshTimer(w.pingLive)
  IN  [w EXCEPT !.pingLive = @ \cup {t}, !.pingTimer = t]

startPingTimer(w) ==
  LET c == clearPingTimer(w)
      t == FreshTimer(c.pingLive)
  IN  [c EXCEPT !.pingLive = @ \cup {t}, !.pingTimer = t]

clearReconnectTimer(w) ==
  IF w.reconnectTimer # NoTimer
  THEN [w EXCEPT !.reconnectLive = @ \ {w.reconnectTimer},
                 !.reconnectTimer = NoTimer]
  ELSE w

\* The timer part of scheduleReconnect; its callback is ReconnectFire.
scheduleReconnect(w) ==
  LET c == clearReconnectTimer(w)
      t == FreshTimer(c.reconnectLive)
  IN  [c EXCEPT !.reconnectLive = @ \cup {t}, !.reconnectTimer = t]

(* ----------------------------- snapshot ------------------------------- *)
HeaderFields == {"eventId", "matchTime", "state"}
SeedHeader(e) == [eventId |-> e, matchTime |-> "1H", state |-> "ACTIVE"]
EventData(e) == [header |-> SeedHeader(e)]
NoMarkets == [e \in {} |-> <<>>]

\* onDataCallback is installed by server.ts before any request is served.
broadcastLiveData(w) ==
  [w EXCEPT !.obs.sink = @ + 1,
            !.obs.snap = [events |-> w.liveEvents, markets |-> w.liveMarkets,
                          lastUpdate |-> w.lastUpdateTime]]

\* A seed that does not clear the maps first.
storeInitialDataKeep(w, events, markets) ==
  broadcastLiveData(
    [w EXCEPT
       !.liveEvents = [e \in DOMAIN @ \cup
                              {events[i].header.eventId : i \in 1..Len(events)} |->
          IF \E i \in 1..Len(events) : events[i].header.eventId = e
          THEN [header |-> [eventId |-> e, matchTime |-> "1H", state |-> "ACTIVE"],
                games |-> IF e \in DOMAIN markets THEN markets[e] ELSE <<>>]
          ELSE @[e]],
       !.liveMarkets = [e \in DOMAIN @ \cup DOMAIN markets |->
          IF e \in DOMAIN markets THEN markets[e] ELSE @[e]],
       !.lastUpdateTime = w.now])

\* events: a sequence of EventData; markets: event id -> market groups.
storeInitialData(w, events, markets) ==
  LET ids == {events[i].header.eventId : i \in 1..Len(events)}
      last(e) == CHOOSE i \in 1..Len(events) :
                   /\ events[i].header.eventId = e
                   /\ \A j \in 1..Len(events) :
                        events[j].header.eventId = e => j <= i
      stored == [w EXCEPT
        !.liveEvents = [e \in ids |->
           [header |-> events[last(e)].header,
            games |-> IF e \in DOMAIN markets THEN markets[e] ELSE <<>>]],
        !.liveMarkets = markets,
        \* games is markets.get(eventId): the array liveMarkets holds
        !.sharedMarkets = UNION {{<<e, i>> : i \in 1..Len(markets[e])} :
                                   e \in ids \cap DOMAIN markets},
        !.lastUpdateTime = w.now]
  IN  broadcastLiveData(stored)

(* --------------------------- subscriptions ---------------------------- *)
AddAll(seq, ids) ==
  LET RECURSIVE go(_, _)
      go(acc, i) == IF i > Len(ids) THEN acc
                    ELSE go(IF ids[i] \in Range(acc) THEN acc
                            ELSE Append(acc, ids[i]), i + 1)
  IN  go(seq, 1)

\* The subscriptions with the per-event frames first.
SubscriptionFramesEventsFirst(sportId, ids) ==
  [i \in 1..Len(ids) |->
     [type |-> "SINGLE_EVENT_UPDATE_V2", arg |-> ids[i],
      selectedGameGroup |-> "all"]]
  \o <<[type |-> "SPORT_UPDATE_LIVE", arg |-> NoSport],
       [type |-> "OFFER_UPDATE_LIVE_SPORT", arg |-> sportId,
        selectedGroupIndices |-> <<0, 0, 0>>]>>

\* The 'subscriptions' messages of subscribeToLiveUpdates, all with action
\* SUBSCRIBE, in the order of the sendMessage calls; arg is the sportId or
\* the eventId.
SubscriptionFrames(sportId, ids) ==
  <<[type |-> "SPORT_UPDATE_LIVE", arg |-> NoSport],
    [type |-> "OFFER_UPDATE_LIVE_SPORT", arg |-> sportId,
     selectedGroupIndices |-> <<0, 0, 0>>]>>
  \o [i \in 1..Len(ids) |->
        [type |-> "SINGLE_EVENT_UPDATE_V2", arg |-> ids[i],
         selectedGameGroup |-> "all"]]

\* What ws.send does with the socket in state st.
SendOutcome(st) ==
  IF st = "open" THEN "written"
  ELSE IF st = "connecting" THEN "throws"
  ELSE "dropped"

\* sendMessage's guards: a frame reaches ws.send only if they pass.
sendMessageAllowed(w) ==
  /\ w.ws # NoConn
  /\ w.isConnected
  /\ w.isHandshakeComplete

\* subscribeToLiveUpdates(sportId, events); ids are the events' ids in order.
subscribeToLiveUpdates(w, by, sportId, ids) ==
  IF w.ws = NoConn \/ ~w.isConnected THEN Throw(w, "WebSocket not connected")
  ELSE IF ~w.isHandshakeComplete
  THEN Throw(w, "WebSocket handshake not complete")
  ELSE IF ~sendMessageAllowed(w) THEN
    \* every sendMessage logs and returns; the ids are recorded all the same
    [w EXCEPT !.subscribedEvents = AddAll(@, ids)]
  ELSE IF SendOutcome(w.conns[w.ws].st) = "throws"
  THEN Throw(w, "WebSocket is not open")
  ELSE [w EXCEPT
         !.subscribedEvents = AddAll(@, ids),
         !.obs.sub = [by |-> by,
                      written |-> SendOutcome(w.conns[w.ws].st) = "written",
                      ready |-> w.conns[w.ws].hs,
                      sport |-> sportId,
                      frames |-> SubscriptionFrames(sportId, ids),
                      before |-> w.subscribedEvents,
                      \* the Sink invocations of this task so far
                      sunk |-> w.obs.sink]]

(* ---------------------------- connection ------------------------------ *)
\* connectWebSocket up to the point where its promise is pending.
connectWebSocket(w, tok, awaiter) ==
  IF ~tok THEN Throw(w, "No valid token available for WebSocket connection")
  ELSE LET c == FreshConn(w.conns)
       IN  [w EXCEPT !.ws = c,
                     !.conns[c] = [st |-> "connecting", hs |-> FALSE,
                                   promise |-> "pending", timeout |-> TRUE,
                                   awaiter |-> awaiter]]

\* ws.close() on the socket in state st.
CloseCall(st) ==
  IF st = "connecting" THEN "aborting"
  ELSE IF st = "open" THEN "closing"
  ELSE st

disconnectWebSocket(w) ==
  LET a == IF w.ws # NoConn
           THEN [w EXCEPT !.conns[w.ws].st = CloseCall(@),
                          !.conns[w.ws].hs = FALSE, !.ws = NoConn]
           ELSE w
      b == clearReconnectTimer(clearPingTimer(a))
  IN  [b EXCEPT !.isConnected = FALSE, !.isHandshakeComplete = FALSE,
                !.sessionId = NoSid]

\* A stop that also discards the snapshot.
stopLiveExtractionClear(w) ==
  [disconnectWebSocket(w) EXCEPT !.subscribedEvents = <<>>,
                                 !.currentSportId = NoSport,
                                 !.liveEvents = [e \in {} |-> <<>>],
                                 !.liveMarkets = [e \in {} |-> <<>>],
                                 !.sharedMarkets = {}]

stopLiveExtraction(w) ==
  [disconnectWebSocket(w) EXCEPT !.subscribedEvents = <<>>,
                                 !.currentSportId = NoSport]

(* --------------------------- state merger ----------------------------- *)
\* The key Map.set receives when header.eventId is absent.
UndefinedKey == -1

\* Replacement instead of a spread.
SpreadReplace(old, new) == new

\* {...old, ...new} on objects: the fields of new win, the others stay.
Spread(old, new) ==
  [k \in DOMAIN old \cup DOMAIN new |->
     IF k \in DOMAIN new THEN new[k] ELSE old[k]]

\* Map.set
Put(m, k, v) == [x \in DOMAIN m \cup {k} |-> IF x = k THEN v ELSE m[x]]

\* Array.findIndex on gameTemplateId; 0 stands for -1 (not found).
FindGameIndex(games, id) ==
  IF \E i \in 1..Len(games) : games[i].gameTemplateId = id
  THEN CHOOSE i \in 1..Len(games) :
         /\ games[i].gameTemplateId = id
         /\ \A j \in 1..Len(games) : games[j].gameTemplateId = id => i <= j
  ELSE 0

\* A merge that appends every incoming group.
MergeGamesAppend(existing, incoming) == existing \o incoming

\* The forEach over newEventData.games of mergeEventData.
MergeGames(existing, incoming) ==
  LET RECURSIVE go(_, _)
      go(acc, i) ==
        IF i > Len(incoming) THEN acc
        ELSE LET idx == FindGameIndex(acc, incoming[i].gameTemplateId)
             IN  go(IF idx > 0
                    THEN [acc EXCEPT ![idx] = Spread(acc[idx], incoming[i])]
                    ELSE Append(acc, incoming[i]), i + 1)
  IN  go(existing, 1)

\* The groups of existing that the forEach replaces by an object with a
\* markets array of its own (the incoming group carries one).
Detached(existing, incoming) ==
  {FindGameIndex(existing, incoming[i].gameTemplateId) :
     i \in {j \in 1..Len(incoming) : "markets" \in DOMAIN incoming[j]}} \ {0}

\* new: the parsed payload, a function on {"header"} or {"header","games"}.
mergeEventData(w, eventId, new) ==
  IF eventId \in DOMAIN w.liveEvents
  THEN LET old == w.liveEvents[eventId]
       IN  IF "games" \notin DOMAIN old \/ "games" \notin DOMAIN new
           THEN Throw(w, "TypeError: games is undefined")
           ELSE [w EXCEPT !.liveEvents = Put(@, eventId,
                   [header |-> Spread(old.header, new.header),
                    games |-> MergeGames(old.games, new.games)]),
                   !.sharedMarkets = @ \ {<<eventId, i>> :
                      i \in Detached(old.games, new.games)}]
  ELSE [w EXCEPT !.liveEvents = Put(@, eventId, new)]

\* A merge that does not tell the Sink.
handleSingleEventUpdateQuiet(w, payload) ==
  IF ~payload.ok \/ "header" \notin DOMAIN payload.data THEN w
  ELSE LET m == mergeEventData(w, IF "eventId" \in DOMAIN payload.data.header
                                  THEN payload.data.header.eventId
                                  ELSE UndefinedKey, payload.data)
       IN  IF m.thrown # "" THEN w ELSE [m EXCEPT !.lastUpdateTime = w.now]

\* payload: [ok: the inner JSON parses, data: the parsed object].
handleSingleEventUpdate(w, payload) ==
  IF ~payload.ok THEN w
  ELSE IF "header" \notin DOMAIN payload.data THEN w
  ELSE LET data == payload.data
           eventId == IF "eventId" \in DOMAIN data.header
                      THEN data.header.eventId ELSE UndefinedKey
           m == mergeEventData(w, eventId, data)
       IN  IF m.thrown # "" THEN w
           ELSE broadcastLiveData([m EXCEPT !.lastUpdateTime = w.now])

(* ------------------------------ strings ------------------------------- *)
\* A string is the sequence of its characters.
UpperLetters ==
  <<"A", "B", "C", "D", "E", "F", "G", "H", "I", "J", "K", "L", "M",
    "N", "O", "P", "Q", "R", "S", "T", "U", "V", "W", "X", "Y", "Z">>
LowerLetters ==
  <<"a", "b", "c", "d", "e", "f", "g", "h", "i", "j", "k", "l", "m",
    "n", "o", "p", "q", "r", "s", "t", "u", "v", "w", "x", "y", "z">>

\* String.prototype.toLowerCase
toLowerCase(str) ==
  [i \in 1..Len(str) |->
     IF \E k \in 1..Len(UpperLetters) : UpperLetters[k] = str[i]
     THEN LowerLetters[CHOOSE k \in 1..Len(UpperLetters) :
                         UpperLetters[k] = str[i]]
     ELSE str[i]]

\* String.prototype.includes
includes(str, sub) ==
  \E i \in 0..(Len(str) - Len(sub)) : SubSeq(str, i + 1, i + Len(sub)) = sub

\* str.split('_').pop(): what follows the last underscore.
LastPart(str) ==
  LET cuts == {i \in 1..Len(str) : str[i] = "_"}
      from == IF cuts = {} THEN 0
              ELSE CHOOSE i \in cuts : \A j \in cuts : j <= i
  IN  SubSeq(str, from + 1, Len(str))

StrFinalScore == <<"f", "i", "n", "a", "l", " ", "s", "c", "o", "r", "e">>
StrScores == <<"s", "c", "o", "r", "e", "s">>
StrTotalGoals == <<"t", "o", "t", "a", "l", " ", "g", "o", "a", "l", "s">>
StrOver == <<"o", "v", "e", "r">>
StrDoubleChance ==
  <<"d", "o", "u", "b", "l", "e", " ", "c", "h", "a", "n", "c", "e">>
StrUnder == <<"U", "n", "d", "e", "r">>
StrOverLabel == <<"O", "v", "e", "r">>
StrUnknown == <<"U", "n", "k", "n", "o", "w", "n">>
StrUnknownMarket ==
  <<"U", "n", "k", "n", "o", "w", "n", " ", "M", "a", "r", "k", "e", "t">>
\* `Selection ${idx}`
StrSelection(idx) ==
  <<"S", "e", "l", "e", "c", "t", "i", "o", "n", " ">> \o idx

\* The name of a patch group; an absent name and the empty string are both
\* falsy and match no keyword.
NameOf(group) == IF "name" \in DOMAIN group THEN group.name ELSE <<>>

ThreeWayName(idx) ==
  IF idx = <<"0">> THEN <<"1">>
  ELSE IF idx = <<"1">> THEN <<"X">>
  ELSE IF idx = <<"2">> THEN <<"2">>
  ELSE StrSelection(idx)

getSelectionName(selectionId, marketName) ==
  LET selectionIndex == LastPart(selectionId)
      lower == toLowerCase(marketName)
  IN  IF includes(lower, StrFinalScore) \/ includes(lower, StrScores)
      THEN ThreeWayName(selectionIndex)
      ELSE IF includes(lower, StrTotalGoals) \/ includes(lower, StrOver)
      THEN IF selectionIndex = <<"0">> THEN StrUnder
           ELSE IF selectionIndex = <<"1">> THEN StrOverLabel
           ELSE StrSelection(selectionIndex)
      ELSE IF includes(lower, StrDoubleChance)
      THEN IF selectionIndex = <<"0">> THEN <<"1", "X">>
           ELSE IF selectionIndex = <<"1">> THEN <<"1", "2">>
           ELSE IF selectionIndex = <<"2">> THEN <<"X", "2">>
           ELSE StrSelection(selectionIndex)
      ELSE ThreeWayName(selectionIndex)

(* ---------------------------- offer patches --------------------------- *)
\* A patch (LiveOfferUpdate): [header, positions]; a position: [groups]; a
\* group: [selections, name], either field possibly absent; a selection
\* delta: [selectionId, state, price, marketId, gameTemplateId].
SelectionsOf(group) ==
  IF "selections" \in DOMAIN group THEN group.selections ELSE <<>>

\* Array.find as an index; 0 stands for undefined.
FindFirst(seq, key, value) ==
  IF \E i \in 1..Len(seq) : seq[i][key] = value
  THEN CHOOSE i \in 1..Len(seq) :
         /\ seq[i][key] = value
         /\ \A j \in 1..Len(seq) : seq[j][key] = value => i <= j
  ELSE 0

\* existingMarketsMap.get: the last group set under the key; 0 for none.
FindGroup(groups, id) ==
  IF \E i \in 1..Len(groups) : groups[i].gameTemplateId = id
  THEN CHOOSE i \in 1..Len(groups) :
         /\ groups[i].gameTemplateId = id
         /\ \A j \in 1..Len(groups) : groups[j].gameTemplateId = id => j <= i
  ELSE 0

\* A patch that builds the market it does not find.
ApplySelectionCreate(markets, d) ==
  Append(markets, [marketId |-> d.marketId, name |-> StrUnknownMarket,
                   state |-> "ACTIVE",
                   selections |-> <<[selectionId |-> d.selectionId,
                                     price |-> d.price, state |-> d.state,
                                     name |-> StrSelection(LastPart(d.selectionId))]>>])

\* The body of group.selections.forEach for one delta, on the markets of the
\* group that was located.
ApplySelection(markets, d) ==
  LET mi == FindFirst(markets, "marketId", d.marketId)
      si == IF mi = 0 THEN 0
            ELSE FindFirst(markets[mi].selections, "selectionId", d.selectionId)
      idx == LastPart(d.selectionId)
  IN  IF mi = 0 THEN markets
      ELSE IF si > 0
      THEN [markets EXCEPT ![mi].selections[si].price = d.price,
                           ![mi].selections[si].state = d.state]
      ELSE [markets EXCEPT ![mi].selections = Append(@,
              [selectionId |-> d.selectionId, price |-> d.price,
               state |-> d.state,
               name |-> StrSelection(IF idx = <<>> THEN StrUnknown ELSE idx)])]

\* The body of position.groups.forEach for one group of deltas.
ApplyGroup(groups, g) ==
  LET sels == SelectionsOf(g)
      gi == IF Len(sels) = 0 \/ sels[1].gameTemplateId = 0 THEN 0
            ELSE FindGroup(groups, sels[1].gameTemplateId)
      RECURSIVE go(_, _)
      go(markets, i) == IF i > Len(sels) THEN markets
                        ELSE go(ApplySelection(markets, sels[i]), i + 1)
  IN  IF gi = 0 THEN groups
      ELSE [groups EXCEPT ![gi].markets = go(@, 1)]

\* The first position that has no groups array, where position.groups.forEach
\* (or .map) throws a TypeError; 0 if every position has one.
FirstBroken(positions) ==
  IF \A i \in 1..Len(positions) : "groups" \in DOMAIN positions[i] THEN 0
  ELSE CHOOSE i \in 1..Len(positions) :
         /\ "groups" \notin DOMAIN positions[i]
         /\ \A j \in 1..(i - 1) : "groups" \in DOMAIN positions[j]

\* data.positions.forEach, as far as it gets.
ApplyPositions(groups, positions) ==
  LET RECURSIVE overGroups(_, _, _)
      overGroups(acc, gs, i) ==
        IF i > Len(gs) THEN acc
        ELSE overGroups(ApplyGroup(acc, gs[i]), gs, i + 1)
      RECURSIVE overPositions(_, _)
      overPositions(acc, i) ==
        IF i > Len(positions) \/ i = FirstBroken(positions) THEN acc
        ELSE overPositions(overGroups(acc, positions[i].groups, 1), i + 1)
  IN  overPositions(groups, 1)

\* One market group per position, one market per group of the position.
SynthesizeGroup(position) ==
  LET gs == position.groups
      first == IF Len(gs) > 0 THEN SelectionsOf(gs[1]) ELSE <<>>
  IN  [markets |-> [k \in 1..Len(gs) |->
         [name |-> IF NameOf(gs[k]) = <<>> THEN StrUnknownMarket
                   ELSE NameOf(gs[k]),
          selections |-> [n \in 1..Len(SelectionsOf(gs[k])) |->
             LET x == SelectionsOf(gs[k])[n]
             IN  [selectionId |-> x.selectionId, price |-> x.price,
                  state |-> x.state,
                  name |-> getSelectionName(x.selectionId, NameOf(gs[k]))]],
          marketId |-> IF Len(SelectionsOf(gs[k])) > 0
                       THEN SelectionsOf(gs[k])[1].marketId ELSE 0,
          state |-> "ACTIVE"]],
       gameTemplateId |-> IF Len(first) > 0 THEN first[1].gameTemplateId ELSE 0,
       marketName |-> IF Len(gs) > 0 /\ NameOf(gs[1]) # <<>> THEN NameOf(gs[1])
                      ELSE StrUnknownMarket]

\* A synthesis that stores the event record alone.
createEventOnly(w, eventId, data) ==
  broadcastLiveData(
    [w EXCEPT !.liveEvents = Put(@, eventId,
                 [header |-> [eventId |-> eventId],
                  games |-> [i \in 1..Len(data.positions) |->
                               SynthesizeGroup(data.positions[i])]]),
              !.lastUpdateTime = w.now])

createEventFromOfferUpdate(w, eventId, data) ==
  LET h == data.header
      eventHeader ==
        [eventId |-> eventId,
         state |-> IF "state" \in DOMAIN h THEN h.state ELSE Undefined,
         matchTime |-> IF "matchTime" \in DOMAIN h THEN h.matchTime ELSE ""]
      marketData == [i \in 1..Len(data.positions) |->
                       SynthesizeGroup(data.positions[i])]
      \* liveEvent.games and the liveMarkets entry are the one array
  IN  broadcastLiveData(
        [w EXCEPT !.liveEvents = Put(@, eventId,
                     [header |-> eventHeader, games |-> marketData]),
                  !.liveMarkets = Put(@, eventId, marketData),
                  !.sharedMarkets = @ \cup {<<eventId, i>> :
                                              i \in 1..Len(marketData)},
                  !.lastUpdateTime = w.now])

\* payload: [ok: the inner JSON parses, data: the parsed object].
handleOfferFeedUpdate(w, payload) ==
  IF ~payload.ok THEN w
  ELSE IF "header" \notin DOMAIN payload.data THEN w
  ELSE LET data == payload.data
           eventId == IF "eventId" \in DOMAIN data.header
                      THEN data.header.eventId ELSE UndefinedKey
       IN  IF eventId \notin DOMAIN w.liveEvents
           THEN IF FirstBroken(data.positions) # 0 THEN w
                ELSE createEventFromOfferUpdate(w, eventId, data)
           ELSE LET existingMarkets ==
                      IF eventId \in DOMAIN w.liveMarkets
                      THEN w.liveMarkets[eventId] ELSE <<>>
                    patched == ApplyPositions(existingMarkets, data.positions)
                    \* the selections were changed in place: every array of
                    \* liveEvents that is the same object shows the change
                    seen == [w.liveEvents[eventId] EXCEPT !.games =
                               [i \in 1..Len(@) |->
                                  IF <<eventId, i>> \in w.sharedMarkets
                                  THEN [@[i] EXCEPT !.markets =
                                          patched[i].markets]
                                  ELSE @[i]]]
                    \* what the catch block finds when forEach threw
                    partly ==
                      [w EXCEPT !.liveMarkets =
                                  IF eventId \in DOMAIN w.liveMarkets
                                  THEN Put(@, eventId, patched) ELSE @,
                                !.liveEvents[eventId] =
                                  IF "games" \in DOMAIN @ THEN seen ELSE @]
                IN  IF FirstBroken(data.positions) # 0 THEN partly
                    ELSE broadcastLiveData(
                      [w EXCEPT !.liveMarkets = Put(@, eventId, patched),
                                !.liveEvents[eventId] =
                                  IF "games" \in DOMAIN @ THEN seen ELSE @,
                                !.lastUpdateTime = w.now])

(* ------------------------- inbound frames ----------------------------- *)
\* A frame: its dispatch prefix (head), whether the JSON after it parses
\* (ok), and the parsed content.
Frame(head, ok, body) == [head |-> head, ok |-> ok, body |-> body]
\* The content of a frame that has none, or none that parses.
NoBody == [none |-> TRUE]

\* A handler whose JSON.parse is outside the try block: the exception ends
\* the connection.
handleWebSocketMessageFatal(w, f) ==
  IF f.head \in {"0{", "40{", "42["} /\ ~f.ok THEN disconnectWebSocket(w)
  ELSE IF f.head = "0{" THEN
    startPingTimer([w EXCEPT !.pingInterval =
      IF "pingInterval" \in DOMAIN f.body /\ f.body.pingInterval # 0
      THEN f.body.pingInterval ELSE DefaultPingInterval])
  ELSE IF f.head = "40{" THEN
    [w EXCEPT !.sessionId = IF "sid" \in DOMAIN f.body THEN f.body.sid
                             ELSE Undefined,
              !.isHandshakeComplete = TRUE]
  ELSE IF f.head = "42[" /\ f.body.name = "single-event-update"
  THEN handleSingleEventUpdate(w, f.body.payload)
  ELSE IF f.head = "42[" /\ f.body.name = "offer-feed-update-live"
  THEN IF f.body.payload.ok THEN handleOfferFeedUpdate(w, f.body.payload)
       ELSE disconnectWebSocket(w)
  ELSE w

\* A switch whose default case is the single-event-update's.
handleWebSocketMessageDefault(w, f) ==
  IF f.head = "0{" THEN
    IF ~f.ok THEN w
    ELSE startPingTimer([w EXCEPT !.pingInterval =
           IF "pingInterval" \in DOMAIN f.body /\ f.body.pingInterval # 0
           THEN f.body.pingInterval ELSE DefaultPingInterval])
  ELSE IF f.head = "40{" THEN
    IF ~f.ok THEN w
    ELSE [w EXCEPT !.sessionId = IF "sid" \in DOMAIN f.body THEN f.body.sid
                                  ELSE Undefined,
                   !.isHandshakeComplete = TRUE]
  ELSE IF f.head = "42[" /\ f.ok THEN
    IF f.body.name = "offer-feed-update-live"
    THEN handleOfferFeedUpdate(w, f.body.payload)
    ELSE handleSingleEventUpdate(w, f.body.payload)
  ELSE w

handleWebSocketMessage(w, f) ==
  IF f.head = "0{" THEN
    IF ~f.ok THEN w
    ELSE startPingTimer([w EXCEPT !.pingInterval =
           IF "pingInterval" \in DOMAIN f.body /\ f.body.pingInterval # 0
           THEN f.body.pingInterval ELSE DefaultPingInterval])
  ELSE IF f.head = "40" THEN w
  ELSE IF f.head = "40{" THEN
    IF ~f.ok THEN w
    ELSE [w EXCEPT !.sessionId = IF "sid" \in DOMAIN f.body THEN f.body.sid
                                  ELSE Undefined,
                   !.isHandshakeComplete = TRUE]
  ELSE IF f.head = "3" THEN w
  ELSE IF f.head = "42[" THEN
    IF ~f.ok THEN w
    ELSE IF f.body.name = "subscriptions" THEN w
    ELSE IF f.body.name = "single-event-update"
    THEN handleSingleEventUpdate(w, f.body.payload)
    ELSE IF f.body.name = "offer-feed-update-live"
    THEN handleOfferFeedUpdate(w, f.body.payload)
    ELSE w
  ELSE w

\* The frames of the handshake and keepalive vocabulary, well formed or not.
\* What a working endpoint sends during the handshake.
ProtoFrames ==
  {Frame("0{", TRUE, [sid |-> "x"]), Frame("40{", TRUE, [sid |-> "abc"])}

HandshakeFrames ==
  {Frame("0{", TRUE, [pingInterval |-> p]) : p \in PingIntervals}
  \cup {Frame("0{", TRUE, [sid |-> "x"]), Frame("0{", FALSE, NoBody)}
  \cup {Frame("40", TRUE, NoBody)}
  \cup {Frame("40{", TRUE, [sid |-> s]) : s \in Sids}
  \cup {Frame("40{", TRUE, [message |-> "x"]), Frame("40{", FALSE, NoBody)}
  \cup {Frame("3", TRUE, NoBody)}
  \cup {Frame("42[", TRUE, [name |-> "subscriptions",
                            payload |-> [ok |-> TRUE, data |-> NoBody]]),
        Frame("42[", TRUE, [name |-> "unknown",
                            payload |-> [ok |-> TRUE, data |-> NoBody]]),
        Frame("42[", FALSE, NoBody)}

\* The objects a single-event-update carries here: a full header, a header
\* with some of the fields, a header without eventId; with a games array or
\* without one.
UpdateHeaders(e) ==
  {SeedHeader(e), [eventId |-> e, matchTime |-> "2H"],
   [eventId |-> e, state |-> "SUSPENDED"]}

EventUpdates ==
  {[header |-> h, games |-> <<>>] :
     h \in UNION {UpdateHeaders(e) : e \in EventIds}}
  \cup {[header |-> [eventId |-> e]] : e \in EventIds}
  \cup {[header |-> [matchTime |-> "2H"], games |-> <<>>]}

\* 42["single-event-update","<u as JSON>"]
SingleEventUpdate(u) ==
  Frame("42[", TRUE, [name |-> "single-event-update",
                      payload |-> [ok |-> TRUE, data |-> u]])

DataFrames ==
  {SingleEventUpdate(u) : u \in EventUpdates}
  \cup {Frame("42[", TRUE, [name |-> "single-event-update",
                            payload |-> [ok |-> FALSE, data |-> NoBody]])}

(* --------------------------- market inputs ---------------------------- *)
Digits == <<"0", "1", "2", "3", "4", "5", "6", "7", "8", "9">>
Digit(n) == Digits[n + 1]
\* The selection id "<marketId>_<ordinal>".
SelId(m, k) == <<Digit(m), "_", Digit(k)>>

GroupIds == 1..MaxGroupId
MarketIds == 1..MaxMarketId
Ordinals == 0..MaxOrdinal

StrMatchResult == <<"M", "a", "t", "c", "h", " ", "R", "e", "s", "u", "l", "t">>
StrRenamed == <<"R", "e", "n", "a", "m", "e", "d">>

\* What REST and a single-event-update carry: full market groups.
Selection(m, k) ==
  [selectionId |-> SelId(m, k), price |-> 1, state |-> "ACTIVE",
   name |-> ThreeWayName(<<Digit(k)>>)]
Market(m) ==
  [marketId |-> m, name |-> StrMatchResult, state |-> "ACTIVE",
   selections |-> <<Selection(m, 0), Selection(m, 1)>>]
Group(g) ==
  [gameTemplateId |-> g, marketName |-> StrMatchResult,
   markets |-> [m \in MarketIds |-> Market(m)]]
\* A group object that carries no markets array.
GroupHeader(g) == [gameTemplateId |-> g, marketName |-> StrRenamed]

GameLists ==
  {<<>>} \cup {<<Group(g)>> : g \in GroupIds}
  \cup {<<GroupHeader(g)>> : g \in GroupIds}
  \cup {<<Group(1), Group(MaxGroupId)>>}

GameUpdates ==
  {[header |-> [eventId |-> e], games |-> gl] :
     e \in EventIds, gl \in GameLists}

\* A selection delta of an offer patch.
Delta(g, m, k) ==
  [selectionId |-> SelId(m, k), state |-> "SUSPENDED", price |-> 2,
   marketId |-> m, gameTemplateId |-> g]

\* The display names the feed gives to groups of deltas.
GroupNames ==
  {StrMatchResult,
   <<"D", "o", "u", "b", "l", "e", " ", "C", "h", "a", "n", "c", "e">>,
   <<"d", "o", "u", "b", "l", "e", " ", "c", "h", "a", "n", "c", "e">>,
   <<"D", "o", "u", "b", "l", "e", " ", "C", "h", "a", "n", "c", "e", " ", "&", " ", "T", "o", "t", "a", "l", " ", "G", "o", "a", "l", "s">>,
   <<"D", "o", "u", "b", "l", "e", " ", "C", "h", "a", "n", "c", "e", " ", "a", "n", "d", " ", "O", "v", "e", "r", "/", "U", "n", "d", "e", "r">>,
   <<"T", "o", "t", "a", "l", " ", "G", "o", "a", "l", "s">>,
   <<"O", "v", "e", "r", "/", "U", "n", "d", "e", "r">>,
   <<"F", "i", "n", "a", "l", " ", "S", "c", "o", "r", "e">>}

\* Groups of deltas: the deltas of one group name one game template; a group
\* may have no selections, and no name.
DeltaGroups ==
  {[name |-> StrMatchResult, selections |-> <<Delta(g, m, k)>>] :
     g \in 0..(MaxGroupId + 1), m \in 1..(MaxMarketId + 1), k \in Ordinals}
  \cup {[name |-> StrMatchResult,
         selections |-> <<Delta(g, 1, 0), Delta(g, MaxMarketId, MaxOrdinal)>>] :
          g \in GroupIds}
  \cup {[selections |-> <<Delta(g, 1, 0)>>] : g \in GroupIds}
  \cup {[name |-> StrMatchResult, selections |-> <<>>],
        [name |-> StrMatchResult]}

NamedGroups ==
  {[name |-> n, selections |-> [k \in 1..(MaxOrdinal + 2) |-> Delta(1, 1, k - 1)]] :
     n \in GroupNames}

OfferHeader(e) == [eventId |-> e, state |-> "ACTIVE", matchTime |-> "2H"]

\* Every patch considered: one position of one group, two positions, one
\* position of two groups.
OfferUpdates ==
  {[header |-> OfferHeader(e), positions |-> <<[groups |-> <<g>>]>>] :
     e \in EventIds, g \in DeltaGroups \cup NamedGroups}
  \cup {[header |-> OfferHeader(e),
         positions |-> <<[groups |-> <<[name |-> StrMatchResult,
                                        selections |-> <<Delta(1, 1, 0)>>]>>],
                         [groups |-> <<[name |-> StrMatchResult,
                                        selections |-> <<Delta(MaxGroupId, 1, 0)>>]>>]>>] :
          e \in EventIds}
  \cup {[header |-> OfferHeader(e),
         positions |-> <<[groups |-> <<[name |-> StrMatchResult,
                                        selections |-> <<Delta(1, 1, 0)>>],
                                       g>>]>>] :
          e \in EventIds,
          g \in {[name |-> StrMatchResult,
                  selections |-> <<Delta(1, MaxMarketId, 0)>>],
                 [name |-> StrMatchResult, selections |-> <<>>]}}
  \cup {[header |-> OfferHeader(e),
         positions |-> <<[groups |-> <<[name |-> StrMatchResult,
                                        selections |-> <<>>],
                                       [name |-> StrMatchResult,
                                        selections |-> <<>>]>>]>>] :
          e \in EventIds}

\* The updates and patches the feed sends in the runs explored.
FeedGames ==
  {[header |-> [eventId |-> e], games |-> gl] :
     e \in EventIds,
     gl \in {<<Group(1)>>, <<GroupHeader(1)>>, <<Group(MaxGroupId)>>}}

FeedOffers ==
  {[header |-> OfferHeader(e), positions |-> <<[groups |-> gs]>>] :
     e \in EventIds,
     gs \in {<<[name |-> StrMatchResult, selections |-> <<Delta(1, 1, 0)>>]>>,
             <<[name |-> StrMatchResult,
                selections |-> <<Delta(1, 1, MaxOrdinal)>>]>>,
             <<[name |-> StrMatchResult, selections |-> <<>>],
               [name |-> StrMatchResult, selections |-> <<>>]>>}}

\* The patch that names one selection: one position, one group, one delta.
PatchFor(e, g, m, sid) ==
  [header |-> OfferHeader(e),
   positions |-> <<[groups |-> <<[name |-> StrMatchResult,
       selections |-> <<[selectionId |-> sid, state |-> "SUSPENDED",
                         price |-> 2, marketId |-> m,
                         gameTemplateId |-> g]>>]>>]>>]

\* The patch with the one delta Delta(g, m, k).
PatchOf(e, g, m, k) == PatchFor(e, g, m, SelId(m, k))

\* 42["offer-feed-update-live","<u as JSON>"]
OfferFeedUpdate(u) ==
  Frame("42[", TRUE, [name |-> "offer-feed-update-live",
                      payload |-> [ok |-> TRUE, data |-> u]])

MarketFrames ==
  {SingleEventUpdate(u) : u \in FeedGames}
  \cup {OfferFeedUpdate(u) : u \in FeedOffers}
  \cup {Frame("42[", TRUE, [name |-> "offer-feed-update-live",
                            payload |-> [ok |-> FALSE, data |-> NoBody]])}

(* ------------------- startLiveExtraction's flow ----------------------- *)
\* A catch block that only logs.
startCatchSilent(w, msg) ==
  [w EXCEPT !.start = IdleStart, !.obs.call = "failed", !.thrown = ""]

\* The catch block of startLiveExtraction.
startCatch(w, msg) ==
  onErrorCallback([w EXCEPT !.start = IdleStart, !.obs.call = "failed",
                            !.thrown = ""], msg)

\* Steps 5 and 6 the other way round.
startFinishSubscribeFirst(w, ids, markets) ==
  LET r == subscribeToLiveUpdates([w EXCEPT !.start.events = <<>>], "start",
                                  w.start.sport, ids)
  IN  IF r.thrown # "" THEN startCatch(r, r.thrown)
      ELSE [storeInitialData(r, [i \in 1..Len(ids) |-> EventData(ids[i])],
                             markets)
              EXCEPT !.start = IdleStart, !.obs.call = "done"]

\* Steps 5 and 6: storeInitialData, then subscribeToLiveUpdates.
startFinish(w, ids, markets) ==
  LET st == storeInitialData(w, [i \in 1..Len(ids) |-> EventData(ids[i])],
                             markets)
      s1 == [st EXCEPT !.start.events = <<>>]
      r == subscribeToLiveUpdates(s1, "start", s1.start.sport, ids)
  IN  IF r.thrown # "" THEN startCatch(r, r.thrown)
      ELSE [r EXCEPT !.start = IdleStart, !.obs.call = "done"]

\* Step 3: getInitialLiveEvents up to its fetch.
startAfterHandshake(w, tok) ==
  IF ~tok THEN startCatch(w, "No valid token available for live events API")
  ELSE [w EXCEPT !.start.pc = "fetchEvents", !.start.conn = NoConn]

\* Step 2: waitForHandshake; its first check runs at once.
startAfterConnect(w, tok) ==
  IF w.isHandshakeComplete THEN startAfterHandshake(w, tok)
  ELSE [w EXCEPT !.start.pc = "waitHandshake", !.start.conn = NoConn]

\* scheduleReconnect's callback after connectWebSocket resolved.
reconnectAfterConnect(w) ==
  IF w.currentSportId # NoSport
  THEN LET r == subscribeToLiveUpdates(w, "reconnect", w.currentSportId,
                                       w.subscribedEvents)
       IN  IF r.thrown # "" THEN scheduleReconnect(Caught(r)) ELSE r
  ELSE w

\* The connect promise of socket c is settled: nobody awaits it any more and
\* its 10 s timer can no longer do anything.
Settle(w, c) ==
  [w EXCEPT !.conns[c].promise = "settled", !.conns[c].awaiter = "none",
            !.conns[c].timeout = FALSE]

\* The rejection of connectWebSocket's promise reaching its awaiter.
connectRejected(w, c, msg) ==
  IF w.conns[c].awaiter = "start"
  THEN IF w.start.pc = "connecting" /\ w.start.conn = c
       THEN startCatch(Settle(w, c), msg) ELSE Settle(w, c)
  ELSE scheduleReconnect(Settle(w, c))

\* A closed socket whose connect timeout has fired is garbage; a start call
\* still awaiting its promise never resumes.
Reclaim(w, c) ==
  IF w.conns[c].st = "closed" /\ ~w.conns[c].timeout
  THEN LET hung == /\ w.conns[c].promise = "pending"
                   /\ w.conns[c].awaiter = "start"
                   /\ w.start.pc = "connecting" /\ w.start.conn = c
       IN  [w EXCEPT !.conns[c] = FreeConn,
                     !.start = IF hung THEN IdleStart ELSE @,
                     !.obs.call = IF hung THEN "hung" ELSE @]
  ELSE w

(* ------------------------------ handlers ------------------------------ *)
InitWorld ==
  [ws |-> NoConn, pingInterval |-> DefaultPingInterval, pingTimer |-> NoTimer,
   reconnectTimer |-> NoTimer, isConnected |-> FALSE,
   isHandshakeComplete |-> FALSE, sessionId |-> NoSid,
   subscribedEvents |-> <<>>, currentSportId |-> NoSport,
   liveEvents |-> [e \in {} |-> <<>>], liveMarkets |-> NoMarkets,
   lastUpdateTime |-> 0, sharedMarkets |-> {}, pingLive |-> {},
   reconnectLive |-> {}, checkHandshakeLive |-> FALSE,
   conns |-> [c \in ConnIds |-> FreeConn], start |-> IdleStart, now |-> 0,
   crashed |-> FALSE, isRunning |-> FALSE, obs |-> NoObs, thrown |-> ""]

\* An exception no handler catches ends the process with all its state.
Crash == [InitWorld EXCEPT !.crashed = TRUE]

\* startLiveExtraction(sportId) up to its first await, called by the start
\* endpoint of server.ts.
startLiveExtraction(w, s, tok) ==
  LET w0 == [w EXCEPT !.currentSportId = s, !.isRunning = TRUE,
                      !.start = [IdleStart EXCEPT !.sport = s]]
      r == connectWebSocket(w0, tok, "start")
  IN  IF r.thrown # "" THEN startCatch(r, r.thrown)
      ELSE [r EXCEPT !.start.pc = "connecting", !.start.conn = r.ws]

\* The stop endpoint of server.ts.
stopExtraction(w) == [stopLiveExtraction(w) EXCEPT !.isRunning = FALSE]

\* POST /api/extraction/start with mode 'live': refused while isRunning,
\* otherwise the state is set and runExtraction calls startLiveExtraction.
extractionStart(w, s, tok) ==
  IF w.isRunning THEN w ELSE startLiveExtraction(w, s, tok)

\* POST /api/extraction/stop: refused unless isRunning.
extractionStop(w) ==
  IF ~w.isRunning THEN w ELSE stopExtraction(w)

\* The 'open' handler of socket c, and the continuation its resolve releases.
onOpen(w, c, tok) ==
  LET w0 == [w EXCEPT !.conns[c].st = "open", !.isConnected = TRUE]
      sendThrows == \/ w0.ws = NoConn
                    \/ SendOutcome(w0.conns[w0.ws].st) = "throws"
      w1 == Settle(w0, c)
  IN  IF sendThrows THEN Crash
      ELSE IF w0.conns[c].promise # "pending" THEN w0
      ELSE IF w0.conns[c].awaiter = "start"
      THEN IF w0.start.pc = "connecting" /\ w0.start.conn = c
           THEN startAfterConnect(w1, tok) ELSE w1
      ELSE reconnectAfterConnect(w1)

\* The 'message' handler of socket c.  hs: c has received its own 40{sid}.
onMessage(w, c, f) ==
  [handleWebSocketMessage(w, f) EXCEPT !.conns[c].hs =
     @ \/ (/\ w.conns[c].st = "open" /\ f.head = "40{" /\ f.ok
           /\ "sid" \in DOMAIN f.body)]

\* The 'error' handler (lines 580-586) running for socket c.
onError(w, c) ==
  onErrorCallback([w EXCEPT !.conns[c].st = "errored", !.conns[c].hs = FALSE,
                            !.isConnected = FALSE], "WebSocket error")

\* The 'close' handler (lines 588-593) running for socket c.
onClose(w, c) ==
  Reclaim(scheduleReconnect(clearPingTimer(
            [w EXCEPT !.conns[c].st = "closed", !.conns[c].hs = FALSE,
                      !.isConnected = FALSE])), c)

\* The callback of connectWebSocket's 10 s timer for socket c.
onConnectTimeout(w, c) ==
  LET w0 == [w EXCEPT !.conns[c].timeout = FALSE]
  IN  Reclaim(IF ~w0.isConnected /\ w0.conns[c].promise = "pending"
              THEN connectRejected(w0, c, "WebSocket connection timeout")
              ELSE w0, c)

\* The callback of waitForHandshake's 10 s timer: it rejects the promise.
\* The last checkHandshake found the flag unset and scheduled the next one,
\* which stays scheduled.
onHandshakeTimeout(w) ==
  startCatch([w EXCEPT !.checkHandshakeLive = TRUE], "Handshake timeout")

\* checkHandshake of a waitForHandshake call whose promise has settled: with
\* the flag set it clears a timer that has fired and resolves a settled
\* promise, otherwise it schedules itself again.  The re-checks of several
\* such calls run within the same 100 ms and are taken together.
checkHandshake(w) ==
  IF w.isHandshakeComplete THEN [w EXCEPT !.checkHandshakeLive = FALSE]
  ELSE w

\* getInitialLiveEvents returned ids (a sequence of event ids) or threw.
onEventsFetched(w, ok, ids) ==
  IF ~ok THEN startCatch(w, "Failed to fetch live events")
  ELSE IF Len(ids) = 0 THEN startFinish(w, ids, NoMarkets)
  ELSE [w EXCEPT !.start.pc = "fetchMarkets", !.start.events = ids]

\* getInitialLiveMarkets returned markets.
onMarketsFetched(w, markets) == startFinish(w, w.start.events, markets)

\* The callback of the reconnect timer t.
onReconnectTimer(w, t, tok) ==
  LET w0 == [w EXCEPT !.reconnectLive = @ \ {t}]
      r == connectWebSocket(w0, tok, "reconnect")
  IN  IF r.thrown # "" THEN scheduleReconnect(Caught(r)) ELSE r

\* The callback startPingTimer gives to setInterval.
onPingTimer(w) ==
  IF w.ws # NoConn /\ w.isConnected
  THEN IF SendOutcome(w.conns[w.ws].st) = "throws" THEN Crash
       ELSE [w EXCEPT !.obs.ping = SendOutcome(w.conns[w.ws].st)]
  ELSE w

(* ------------------------------ actions ------------------------------- *)
HasFreeConn == \E c \in ConnIds : conns[c].st = "free"

\* A start request is served: server.ts refuses it while isRunning.
StartLiveExtraction(s, tok) ==
  /\ ~crashed
  /\ ~isRunning
  /\ start.pc = "idle"
  /\ tok => HasFreeConn
  /\ Commit(startLiveExtraction(World, s, tok))

\* A stop request is served: server.ts refuses it unless isRunning.
StopLiveExtraction ==
  /\ ~crashed
  /\ isRunning
  /\ Commit(stopExtraction(World))

\* A start request arrives, whatever the state of the extraction.
StartRequest(s, tok) ==
  /\ ~crashed
  /\ ~isRunning => (start.pc = "idle" /\ (tok => HasFreeConn))
  /\ Commit(extractionStart(World, s, tok))

\* A stop request arrives, whatever the state of the extraction.
StopRequest ==
  /\ ~crashed
  /\ Commit(extractionStop(World))

\* Socket c is established.
ConnOpen(c, tok) ==
  /\ ~crashed
  /\ conns[c].st = "connecting"
  /\ Commit(onOpen(World, c, tok))

\* Socket c delivers frame f.
ConnMessage(c, f) ==
  /\ ~crashed
  /\ conns[c].st \in {"open", "closing"}
  /\ Commit(onMessage(World, c, f))

\* An open socket c fails: 'error' now, 'close' in a later task.
ConnError(c) ==
  /\ ~crashed
  /\ conns[c].st = "open"
  /\ Commit(onError(World, c))

\* A socket c that never opened fails (refused, or closed by ws.close()
\* before it was established): the transport emits 'error' and 'close'
\* one after the other in the same task.
ConnFail(c) ==
  /\ ~crashed
  /\ conns[c].st \in {"connecting", "aborting"}
  /\ Commit(onClose(onError(World, c), c))

\* 'close' of a socket c that was open.
ConnClose(c) ==
  /\ ~crashed
  /\ conns[c].st \in {"open", "closing", "errored"}
  /\ Commit(onClose(World, c))

\* The 10 s timer of connectWebSocket for socket c fires.
ConnectTimeout(c) ==
  /\ ~crashed
  /\ conns[c].st # "free"
  /\ conns[c].timeout
  /\ Commit(onConnectTimeout(World, c))

\* checkHandshake finds the flag set.
HandshakePoll(tok) ==
  /\ ~crashed
  /\ start.pc = "waitHandshake"
  /\ isHandshakeComplete
  /\ Commit(startAfterHandshake(World, tok))

\* The 10 s timer of waitForHandshake fires.
HandshakeTimeout ==
  /\ ~crashed
  /\ start.pc = "waitHandshake"
  /\ Commit(onHandshakeTimeout(World))

\* The 100 ms timer of a checkHandshake left behind fires.
HandshakeRecheck ==
  /\ ~crashed
  /\ checkHandshakeLive
  /\ Commit(checkHandshake(World))

FetchEventsDone(ok, ids) ==
  /\ ~crashed
  /\ start.pc = "fetchEvents"
  /\ Commit(onEventsFetched(World, ok, ids))

FetchMarketsDone(markets) ==
  /\ ~crashed
  /\ start.pc = "fetchMarkets"
  /\ Commit(onMarketsFetched(World, markets))

\* The reconnect timer t fires.
ReconnectFire(t, tok) ==
  /\ ~crashed
  /\ t \in reconnectLive
  /\ tok => HasFreeConn
  /\ Commit(onReconnectTimer(World, t, tok))

\* The interval t of the ping timer elapses; the interval stays live.
PingFire(t) ==
  /\ ~crashed
  /\ t \in pingLive
  /\ Commit(onPingTimer(World))

\* Time passes.
Tick ==
  /\ ~crashed
  /\ now < MaxTime
  /\ Commit([World EXCEPT !.now = @ + 1])

(* --------------------- credentials and REST fetches -------------------- *)
(* MeridianbetTokenService's coordinated refresh and the authenticated GETs *)
(* of the two services.  A call of an async method is followed from await   *)
(* to await: each action runs one of its synchronous stretches.  The delays *)
(* before a request (MARKET_DELAY, RETRY_DELAY) separate nothing that reads *)
(* or writes shared state and are part of the stretch that follows them.    *)
\* 5 * 60 * 1000 milliseconds.
FiveMinutes == 300000
Hour == 12 * FiveMinutes
\* The times to the expiry of a token that are told apart: expiresAt.getTime()
\* - now.getTime(), at the threshold of isTokenValid, just above it and far
\* above it.
RemainingTimes == {FiveMinutes, FiveMinutes + 1, Hour}

\* tokenData: the access token (0: null) and the time that remains to its
\* expiresAt.
NoToken == [accessToken |-> 0, remaining |-> 0]
NoPromise == 0
FreePromise == [st |-> "free", value |-> 0]

TokenOps == {"refreshTokenIfNeeded", "waitForTokenRefresh"}
\* getInitialLiveEvents and getEventMarkets of MeridianbetLiveService.
LiveOps == {"getInitialLiveEvents", "LiveService.getEventMarkets"}
\* getEventMarkets of MeridianbetDataService.
DataOps == {"DataService.getEventMarkets"}
FetchOps == LiveOps \cup DataOps
\* getLeagues of MeridianbetDataService.
LeagueOps == {"getLeagues"}
\* for (let page = 0; page < 5; page++)
PageLimit == 5

\* A caller: the method it is in (op), the await it is at (pc), the refresh
\* promise it awaits and whether it is the one that created it (leader), the
\* requests it has issued and the access token in the Authorization header
\* of the last one (sent), how it ended (out) and the token it was given
\* (value); for getLeagues the page of its loop and whether a page came back
\* without leagues (sawEmpty).
IdleCall ==
  [op |-> "none", pc |-> "idle", await |-> NoPromise, leader |-> FALSE,
   requests |-> 0, sent |-> 0, out |-> "none", value |-> 0,
   page |-> 0, sawEmpty |-> FALSE]

Rest ==
  [tokenData |-> tokenData, refreshInProgress |-> refreshInProgress,
   refreshPromise |-> refreshPromise, promises |-> promises, calls |-> calls]

InitRest ==
  [tokenData |-> NoToken, refreshInProgress |-> FALSE,
   refreshPromise |-> NoPromise,
   promises |-> [p \in PromiseIds |-> FreePromise],
   calls |-> [k \in CallerIds |-> IdleCall]]

\* A settled promise nobody holds is garbage.
Collect(r) ==
  [r EXCEPT !.promises = [p \in PromiseIds |->
     IF /\ r.promises[p].st \in {"resolved", "rejected"}
        /\ r.refreshPromise # p
        /\ \A k \in CallerIds : r.calls[k].await # p
     THEN FreePromise ELSE r.promises[p]]]

CommitRest(v) ==
  \E r \in {Collect(v)} :
  /\ tokenData' = r.tokenData
  /\ refreshInProgress' = r.refreshInProgress
  /\ refreshPromise' = r.refreshPromise
  /\ promises' = r.promises
  /\ calls' = r.calls
  /\ UNCHANGED liveVars
  /\ UNCHANGED bulk
  /\ UNCHANGED sseVars

IsRest(r) ==
  /\ tokenData = r.tokenData
  /\ refreshInProgress = r.refreshInProgress
  /\ refreshPromise = r.refreshPromise
  /\ promises = r.promises
  /\ calls = r.calls

FreshPromise(ps) ==
  IF \E p \in PromiseIds : ps[p].st = "free"
  THEN CHOOSE p \in PromiseIds :
         ps[p].st = "free" /\ \A q \in PromiseIds : ps[q].st = "free" => p <= q
  ELSE MaxPromises

\* A validity test that counts the threshold itself as valid.
isTokenValidInclusive(r) ==
  IF r.tokenData.accessToken = 0 THEN FALSE
  ELSE r.tokenData.remaining >= FiveMinutes

isTokenValid(r) ==
  IF r.tokenData.accessToken = 0 THEN FALSE
  ELSE r.tokenData.remaining > FiveMinutes

\* What an async method of the token service leaves its caller with: the
\* promise to await (NoPromise: this.tokenData is returned at once), and
\* whether the caller runs the finally block when the promise settles.
Answer(r, p, leader) == [rest |-> r, await |-> p, leader |-> leader]

\* performTokenRefresh() is called: its promise is pending.
StartRefresh(r) ==
  LET p == FreshPromise(r.promises)
  IN  Answer([r EXCEPT !.refreshInProgress = TRUE, !.refreshPromise = p,
                       !.promises[p] = [st |-> "pending", value |-> 0]],
             p, TRUE)

\* A refresh that does not look for one in progress.
refreshTokenIfNeededAlone(r) ==
  IF isTokenValid(r) THEN Answer(r, NoPromise, FALSE) ELSE StartRefresh(r)

refreshTokenIfNeeded(r) ==
  IF isTokenValid(r) THEN Answer(r, NoPromise, FALSE)
  ELSE IF r.refreshInProgress /\ r.refreshPromise # NoPromise
  THEN Answer(r, r.refreshPromise, FALSE)
  ELSE StartRefresh(r)

waitForTokenRefresh(r) ==
  IF r.refreshInProgress /\ r.refreshPromise # NoPromise
  THEN Answer(r, r.refreshPromise, FALSE)
  ELSE refreshTokenIfNeeded(r)

\* Caller k issues a request with the bearer token and awaits the response
\* at pc.
Request(r, k, pc, token) ==
  [r EXCEPT !.calls[k].pc = pc, !.calls[k].requests = @ + 1,
            !.calls[k].sent = token,
            !.calls[k].await = NoPromise, !.calls[k].leader = FALSE]

\* Caller k's method returns or throws: out.
Finish(r, k, out) ==
  [r EXCEPT !.calls[k].pc = "done", !.calls[k].out = out,
            !.calls[k].await = NoPromise, !.calls[k].leader = FALSE]

\* Caller k awaits the promise of answer a at pc.
Suspend(a, k, pc) ==
  [a.rest EXCEPT !.calls[k].pc = pc, !.calls[k].await = a.await,
                 !.calls[k].leader = a.leader]

\* getInitialLiveEvents / getEventMarkets of the live service, from the
\* first line to the await of fetch.
liveFetch(r, k) ==
  IF r.tokenData.accessToken = 0 THEN Finish(r, k, "error")
  ELSE Request(r, k, "request", r.tokenData.accessToken)

\* JavaScript's truthiness of an errorCode: null and "" are falsy.
Truthy(errorCode) == errorCode \notin {"null", ""}

\* getLeagues at the head of its loop: the loop test, and the body up to its
\* first await that suspends.
leaguesPage(r, k) ==
  LET a == refreshTokenIfNeeded(r)
  IN  IF r.calls[k].page >= PageLimit THEN Finish(r, k, "ok")
      ELSE IF a.await # NoPromise THEN Suspend(a, k, "token")
      ELSE Request(a.rest, k, "request", a.rest.tokenData.accessToken)

\* page++ and the loop again: after the body, after continue, and after the
\* catch block.
nextPage(r, k) == leaguesPage([r EXCEPT !.calls[k].page = @ + 1], k)

\* processLeaguesResponse: throws on an errorCode, collects the events, and
\* logs when the page has no leagues.
processLeaguesResponse(r, k, resp) ==
  IF Truthy(resp.errorCode) THEN [rest |-> r, thrown |-> TRUE]
  ELSE [rest |-> [r EXCEPT !.calls[k].sawEmpty = @ \/ resp.leagues = 0],
        thrown |-> FALSE]

\* getLeagues after await fetch(...) and after the await of the retry.
onResponseLeagues(r, k, resp) ==
  LET done == processLeaguesResponse(r, k, resp)
  IN  IF r.calls[k].pc = "request" /\ resp.status = 401
      THEN LET a == refreshTokenIfNeeded(r)
           IN  IF a.await = NoPromise
               THEN Request(a.rest, k, "retry", a.rest.tokenData.accessToken)
               ELSE Suspend(a, k, "refresh")
      ELSE IF resp.status # 200 THEN nextPage(r, k)
      ELSE IF done.thrown THEN nextPage(r, k)
      ELSE IF r.calls[k].pc = "retry" THEN nextPage(done.rest, k)
      ELSE [done.rest EXCEPT !.calls[k].pc = "pause"]

\* Caller k enters method op.
Begin(r, k, op) ==
  LET base == [r EXCEPT !.calls[k] = [IdleCall EXCEPT !.op = op]]
      a == IF op = "waitForTokenRefresh" THEN waitForTokenRefresh(base)
           ELSE refreshTokenIfNeeded(base)
  IN  IF op \in LiveOps THEN liveFetch(base, k)
      ELSE IF op \in LeagueOps THEN leaguesPage(base, k)
      ELSE IF a.await # NoPromise THEN Suspend(a, k, "token")
      ELSE IF op \in TokenOps
      THEN [Finish(a.rest, k, "token") EXCEPT
              !.calls[k].value = a.rest.tokenData.accessToken]
      ELSE Request(a.rest, k, "request", a.rest.tokenData.accessToken)

\* The live service's code after await fetch(...).
onResponseLive(r, k, resp) ==
  IF resp.status = 401
  THEN LET a == waitForTokenRefresh(r)
       IN  IF a.await = NoPromise THEN liveFetch(a.rest, k)
           ELSE Suspend(a, k, "refresh")
  ELSE IF resp.status # 200 THEN Finish(r, k, "error")
  ELSE IF resp.errorCode # "null" THEN Finish(r, k, "error")
  ELSE Finish(r, k, "ok")

\* The data service's code after await fetch(...) and after the await of
\* the retry; what it throws its own catch block turns into [].
onResponseData(r, k, resp) ==
  IF r.calls[k].pc = "request" /\ resp.status = 401
  THEN LET a == waitForTokenRefresh(r)
       IN  IF a.await = NoPromise
           THEN Request(a.rest, k, "retry", a.rest.tokenData.accessToken)
           ELSE Suspend(a, k, "refresh")
  ELSE IF resp.status # 200 THEN Finish(r, k, "empty")
  ELSE IF Truthy(resp.errorCode) THEN Finish(r, k, "empty")
  ELSE Finish(r, k, "ok")

onResponse(r, k, resp) ==
  IF r.calls[k].op \in LiveOps THEN onResponseLive(r, k, resp)
  ELSE IF r.calls[k].op \in LeagueOps THEN onResponseLeagues(r, k, resp)
  ELSE onResponseData(r, k, resp)

\* A finally block that is a success path only.
refreshFinallyOnSuccess(r, k) ==
  IF r.calls[k].leader /\ r.promises[r.calls[k].await].st = "resolved"
  THEN [r EXCEPT !.refreshInProgress = FALSE, !.refreshPromise = NoPromise]
  ELSE r

\* The finally block of refreshTokenIfNeeded, run by the caller that
\* created the promise, whether the await returned or threw.
refreshFinally(r, k) ==
  IF r.calls[k].leader
  THEN [r EXCEPT !.refreshInProgress = FALSE, !.refreshPromise = NoPromise]
  ELSE r

\* The promise caller k awaits has settled: the finally block of
\* refreshTokenIfNeeded if k created it, then what follows the await.
onSettled(r, k) ==
  LET c == r.calls[k]
      ok == r.promises[c.await].st = "resolved"
      r1 == refreshFinally(r, k)
      r2 == [r1 EXCEPT !.calls[k].await = NoPromise,
                       !.calls[k].leader = FALSE]
  IN  IF c.op \in TokenOps
      THEN IF ok THEN [Finish(r2, k, "token") EXCEPT
                         !.calls[k].value = r.promises[c.await].value]
           ELSE Finish(r2, k, "failed")
      ELSE IF c.op \in LiveOps
      THEN IF ok THEN liveFetch(r2, k) ELSE Finish(r2, k, "error")
      ELSE IF c.op \in LeagueOps /\ ~ok THEN nextPage(r2, k)
      ELSE IF ~ok THEN Finish(r2, k, "empty")
      ELSE Request(r2, k, IF c.pc = "token" THEN "request" ELSE "retry",
                   r.promises[c.await].value)

\* What the upstream answers: 200 with errorCode null, "" or a code; 401; 500.
Responses ==
  {[status |-> 200, errorCode |-> e] : e \in {"null", "", "E"}}
  \cup {[status |-> s, errorCode |-> "null"] : s \in {401, 500}}

\* What the upstream answers to a request for a page of leagues: as above,
\* and with leagues or without any.
LeagueResponses ==
  {[status |-> 200, errorCode |-> "null", leagues |-> n] : n \in {0, 1}}
  \cup {[status |-> 200, errorCode |-> "E", leagues |-> 0]}
  \cup {[status |-> s, errorCode |-> "null", leagues |-> 0] : s \in {401, 500}}

CanStartRefresh == \E p \in PromiseIds : promises[p].st = "free"

\* Caller k calls method op.
Call(k, op) ==
  /\ calls[k].pc \in {"idle", "done"}
  /\ CanStartRefresh
  /\ CommitRest(Begin(Rest, k, op))

\* The response to caller k's request arrives.
Response(k, resp) ==
  /\ calls[k].pc \in {"request", "retry"}
  /\ CanStartRefresh
  /\ (calls[k].op \in LiveOps /\ resp.status = 401) =>
       calls[k].requests < MaxRequests
  /\ CommitRest(onResponse(Rest, k, resp))

\* The delay of getLeagues after a page is over.
PageDelayOver(k) ==
  /\ calls[k].pc = "pause"
  /\ CanStartRefresh
  /\ CommitRest(nextPage(Rest, k))

\* Caller k resumes after the refresh promise it awaited.
Settled(k) ==
  /\ calls[k].await # NoPromise
  /\ promises[calls[k].await].st \in {"resolved", "rejected"}
  /\ CommitRest(onSettled(Rest, k))

\* The refresh p obtains a token (refresh grant or extraction): tokenData is
\* assigned with the expiry the upstream gives, the token file is still to
\* be written.
RefreshWrites(p, life) ==
  /\ promises[p].st = "pending"
  /\ promises[p].value = 0
  /\ tokenData.accessToken < MaxTokens
  /\ CommitRest([Rest EXCEPT
       !.tokenData = [accessToken |-> tokenData.accessToken + 1,
                      remaining |-> life],
       !.promises[p].value = tokenData.accessToken + 1])

\* performTokenRefresh returns this.tokenData.
RefreshReturns(p) ==
  /\ promises[p].st = "pending"
  /\ promises[p].value # 0
  /\ CommitRest([Rest EXCEPT !.promises[p].st = "resolved"])

\* Refresh grant and extraction both fail: performTokenRefresh throws.
RefreshThrows(p) ==
  /\ promises[p].st = "pending"
  /\ promises[p].value = 0
  /\ CommitRest([Rest EXCEPT !.promises[p].st = "rejected"])

\* Time passes: the token comes closer to its expiry.
TokenExpires(left) ==
  /\ tokenData.accessToken # 0
  /\ left < tokenData.remaining
  /\ CommitRest([Rest EXCEPT !.tokenData.remaining = left])

(* -------------------------- bulk bootstrap ----------------------------- *)
(* getInitialLiveMarkets of the live service and getAllEventMarkets of the  *)
(* data service: the per-event fetches of one pass, batch by batch.  A      *)
(* per-event fetch is followed from the call of its async lambda            *)
(* ("delay": it waits for its stagger delay), over the call of              *)
(* getEventMarkets ("fetching") to its end: market groups ("ok"), no groups *)
(* ("empty"), or an exception of getEventMarkets ("failed").                *)
batchSize == 5

NoBulk ==
  [svc |-> "none", phase |-> "idle", events |-> <<>>, batchIndex |-> 0,
   st |-> <<>>, calls |-> <<>>, markets |-> NoMarkets]

\* The batch (from 0) of the event at position i (from 1).
BatchNo(i) == (i - 1) \div batchSize
\* batches.length
NumBatches(n) == (n + batchSize - 1) \div batchSize
\* events.slice(i, i + batchSize), as positions.
BatchOf(n, k) == {i \in 1..n : BatchNo(i) = k}

Started == {"delay", "fetching"}
Ended == {"ok", "empty", "failed"}

\* A pass that maps its lambda over all the events that are left.
startBatchAll(b, k) ==
  [b EXCEPT !.phase = "batch", !.batchIndex = k,
            !.st = [i \in 1..Len(b.events) |->
                      IF b.st[i] = "todo" THEN "delay" ELSE b.st[i]]]

\* batch.map(async ...) for batch k: every lambda runs up to its first await.
\* The data service's lambda for index 0 has no delay and calls
\* getEventMarkets at once.
startBatch(b, k) ==
  LET first == k * batchSize + 1
  IN  [b EXCEPT
        !.phase = "batch", !.batchIndex = k,
        !.st = [i \in 1..Len(b.events) |->
                  IF i \notin BatchOf(Len(b.events), k) THEN b.st[i]
                  ELSE IF b.svc = "data" /\ i = first THEN "fetching"
                  ELSE "delay"],
        !.calls = [i \in 1..Len(b.events) |->
                     IF b.svc = "data" /\ i = first THEN b.calls[i] + 1
                     ELSE b.calls[i]]]

\* The pass is entered with the events ids.
beginBulk(svc, ids) ==
  startBatch([NoBulk EXCEPT !.svc = svc, !.events = ids,
                            !.st = [i \in 1..Len(ids) |-> "todo"],
                            !.calls = [i \in 1..Len(ids) |-> 0]], 0)

\* The stagger delay of position i is over: getEventMarkets is called.
fetchStart(b, i) ==
  [b EXCEPT !.st[i] = "fetching", !.calls[i] = @ + 1]

\* A store that keeps nothing of a pass in which a fetch failed.
StoreAllOrNothing(b, ps) ==
  IF \E i \in 1..Len(b.events) : b.st[i] = "failed" THEN NoMarkets
  ELSE [e \in DOMAIN b.markets \cup {b.events[i] : i \in {j \in ps : b.st[j] = "ok"}}
          |-> <<Group(1)>>]

\* markets.set(eventId, markets) for the positions ps whose fetch gave
\* market groups.
Store(b, ps) ==
  [e \in DOMAIN b.markets \cup {b.events[i] : i \in {j \in ps : b.st[j] = "ok"}}
     |-> <<Group(1)>>]

\* The per-event fetch of position i ends with out.  When it is the last of
\* its batch Promise.all resolves: the live service stores the results and
\* pauses before the next batch or returns after the last one; the data
\* service, which stores each result as it comes, pauses after every batch.
fetchEnd(b, i, out) ==
  LET n == Len(b.events)
      b1 == [b EXCEPT !.st[i] = out]
      b2 == IF b.svc = "data" THEN [b1 EXCEPT !.markets = Store(b1, {i})]
            ELSE b1
      batch == BatchOf(n, b.batchIndex)
      joined == \A j \in batch : b2.st[j] \in Ended
      b3 == IF b.svc = "live" THEN [b2 EXCEPT !.markets = Store(b2, batch)]
            ELSE b2
  IN  IF ~joined THEN b2
      ELSE IF b.svc = "live" /\ b.batchIndex = NumBatches(n) - 1
      THEN [b3 EXCEPT !.phase = "done"]
      ELSE [b3 EXCEPT !.phase = "pause"]

\* The delay between batches is over.
pauseEnd(b) ==
  IF b.batchIndex < NumBatches(Len(b.events)) - 1
  THEN startBatch(b, b.batchIndex + 1)
  ELSE [b EXCEPT !.phase = "done"]

\* getInitialLiveMarkets(events) is entered by the startLiveExtraction call.
BulkBegin ==
  /\ ~crashed
  /\ start.pc = "fetchMarkets"
  /\ bulk.phase \in {"idle", "done"}
  /\ bulk' = beginBulk("live", start.events)
  /\ UNCHANGED sseVars
  /\ UNCHANGED liveVars
  /\ UNCHANGED restVars

\* getAllEventMarkets(ids) is entered (pre-match extraction, which server.ts
\* runs only while no live extraction is running).
DataFetchAll(ids) ==
  /\ ~crashed
  /\ ~isRunning
  /\ bulk.phase \in {"idle", "done"}
  /\ bulk' = beginBulk("data", ids)
  /\ UNCHANGED sseVars
  /\ UNCHANGED liveVars
  /\ UNCHANGED restVars

\* The timers of one batch are set in one stretch with growing delays and
\* fire in that order.
FetchStart(i) ==
  /\ ~crashed
  /\ bulk.phase = "batch"
  /\ i \in 1..Len(bulk.events)
  /\ bulk.st[i] = "delay"
  /\ \A j \in 1..(i - 1) : bulk.st[j] # "delay"
  /\ bulk' = fetchStart(bulk, i)
  /\ UNCHANGED sseVars
  /\ UNCHANGED liveVars
  /\ UNCHANGED restVars

\* The fetch of position i ends; the live service's last one resumes the
\* startLiveExtraction call, which stores the seed and subscribes.
FetchEnd(i, out) ==
  /\ ~crashed
  /\ bulk.phase = "batch"
  /\ i \in 1..Len(bulk.events)
  /\ bulk.st[i] = "fetching"
  /\ bulk.svc = "data" => out # "failed"
  /\ bulk' = fetchEnd(bulk, i, out)
  /\ UNCHANGED sseVars
  /\ UNCHANGED restVars
  /\ IF bulk.svc = "live" /\ bulk'.phase = "done"
     THEN /\ start.pc = "fetchMarkets"
          /\ CommitLive(onMarketsFetched(World, bulk'.markets))
     ELSE UNCHANGED liveVars

PauseEnd ==
  /\ ~crashed
  /\ bulk.phase = "pause"
  /\ bulk' = pauseEnd(bulk)
  /\ UNCHANGED sseVars
  /\ UNCHANGED liveVars
  /\ UNCHANGED restVars

(* --------------------------- stream clients --------------------------- *)
(* The SSE clients of server.ts.  A client is the object { id, res } made   *)
(* when its request arrives; the model names it by a number.  Nothing but   *)
(* the stream endpoint and broadcastToClients reads or writes the set, so   *)
(* the broadcasts of the endpoints and of the live callbacks are followed   *)
(* on their own.                                                            *)
ClientIds == 1..MaxClients

\* req.on('close'): clients.delete({ id: clientId, res }) is given an object
\* made on the spot, which is no member of the Set: nothing is deleted.
onStreamClose(cs, c) == cs

\* broadcastToClients: res.write for every member of the set, connected or
\* not; the members whose write throws are deleted.
broadcastToClients(cs, thrown) == cs \ thrown

\* GET /api/extraction/stream: the client is added and the initial status is
\* written to it.
StreamOpen(c) ==
  /\ ~crashed
  /\ c \notin clients \cup streams
  /\ clients' = clients \cup {c}
  /\ streams' = streams \cup {c}
  /\ UNCHANGED <<liveVars, restVars, bulk>>

\* The request of client c closes.
StreamClose(c) ==
  /\ ~crashed
  /\ c \in streams
  /\ streams' = streams \ {c}
  /\ clients' = onStreamClose(clients, c)
  /\ UNCHANGED <<liveVars, restVars, bulk>>

\* A message is broadcast.  A write to an open stream does not throw; a
\* write to a closed one may.
Broadcast(thrown) ==
  /\ ~crashed
  /\ thrown \subseteq clients \ streams
  /\ clients' = broadcastToClients(clients, thrown)
  /\ UNCHANGED streams
  /\ UNCHANGED <<liveVars, restVars, bulk>>

(* ------------------------------ inputs -------------------------------- *)
\* The event lists the events endpoint returns here: no live event, or all.
IdSeqs == {<<>>, [i \in 1..MaxEventId |-> i]}

Init ==
  /\ Is(InitWorld)
  /\ IsRest(InitRest)
  /\ bulk = NoBulk
  /\ clients = {}
  /\ streams = {}

Next ==
  \/ \E s \in Sports, tok \in BOOLEAN : StartLiveExtraction(s, tok)
  \/ StopLiveExtraction
  \/ \E c \in ConnIds, tok \in BOOLEAN : ConnOpen(c, tok)
  \/ \E c \in ConnIds, f \in ProtoFrames : ConnMessage(c, f)
  \/ \E c \in ConnIds : ConnError(c)
  \/ \E c \in ConnIds : ConnFail(c)
  \/ \E c \in ConnIds : ConnClose(c)
  \/ \E c \in ConnIds : ConnectTimeout(c)
  \/ \E tok \in BOOLEAN : HandshakePoll(tok)
  \/ HandshakeTimeout
  \/ HandshakeRecheck
  \/ \E ok \in BOOLEAN, ids \in IdSeqs : FetchEventsDone(ok, ids)
  \/ FetchMarketsDone(NoMarkets)
  \/ \E t \in TimerIds, tok \in BOOLEAN : ReconnectFire(t, tok)

Spec == Init /\ [][Next]_vars

\* One session whose connections open, receive any frame of the handshake
\* and keepalive vocabulary in any order, close and are replaced by the
\* reconnect timer.
NextHandshake ==
  \/ \E s \in Sports : StartLiveExtraction(s, TRUE)
  \/ \E c \in ConnIds : ConnOpen(c, TRUE)
  \/ \E c \in ConnIds, f \in HandshakeFrames : ConnMessage(c, f)
  \/ \E c \in ConnIds : ConnClose(c)
  \/ \E t \in TimerIds : ReconnectFire(t, TRUE)

SpecHandshake == Init /\ [][NextHandshake]_vars

\* One session whose connection stays up: the endpoint sends any data frame,
\* in any order, while the clock advances.
NextFeed ==
  \/ \E s \in Sports : StartLiveExtraction(s, TRUE)
  \/ \E c \in ConnIds : ConnOpen(c, TRUE)
  \/ \E c \in ConnIds, f \in DataFrames : ConnMessage(c, f)
  \/ Tick

SpecFeed == Init /\ [][NextFeed]_vars

\* The lists of the events endpoint and the maps getInitialLiveMarkets makes
\* of the market groups fetched for them (events without groups have no key).
SessionIdSeqs == {<<>>, <<1>>}
MarketSeeds(ids) ==
  {[e \in S |-> <<Group(1)>>] : S \in SUBSET Range(ids)}

\* What the feed sends in a session: the handshake confirmation, an update
\* and a patch.
SessionFrames ==
  {Frame("40{", TRUE, [sid |-> s]) : s \in Sids}
  \cup {SingleEventUpdate([header |-> [eventId |-> MaxEventId, matchTime |-> "2H"],
                           games |-> <<>>]),
        OfferFeedUpdate(PatchOf(1, 1, 1, 0))}

\* Sessions from start to stop and again: bootstrap with its REST results,
\* data frames, a dropped connection and its replacement.
NextSession ==
  \/ \E s \in Sports : StartLiveExtraction(s, TRUE)
  \/ StopLiveExtraction
  \/ \E c \in ConnIds : ConnOpen(c, TRUE)
  \/ \E c \in ConnIds, f \in SessionFrames : ConnMessage(c, f)
  \/ \E c \in ConnIds : ConnClose(c)
  \/ \E c \in ConnIds : ConnError(c)
  \/ HandshakePoll(TRUE)
  \/ \E ids \in SessionIdSeqs : FetchEventsDone(TRUE, ids)
  \/ \E m \in MarketSeeds(start.events) : FetchMarketsDone(m)
  \/ \E t \in TimerIds : ReconnectFire(t, TRUE)

SpecSession == Init /\ [][NextSession]_vars

\* Bootstraps on connections that stay up until the session is stopped, with
\* the feed's frames arriving before and after the seed while the clock
\* advances.
NextBootstrap ==
  \/ \E s \in Sports : StartLiveExtraction(s, TRUE)
  \/ StopLiveExtraction
  \/ \E c \in ConnIds : ConnOpen(c, TRUE)
  \/ \E c \in ConnIds, f \in SessionFrames : ConnMessage(c, f)
  \/ HandshakePoll(TRUE)
  \/ \E ids \in SessionIdSeqs : FetchEventsDone(TRUE, ids)
  \/ \E m \in MarketSeeds(start.events) : FetchMarketsDone(m)
  \/ Tick

SpecBootstrap == Init /\ [][NextBootstrap]_vars

\* One connection that stays up while the feed sends single-event-updates
\* with market groups and offer patches, in any order.
NextMarkets ==
  \/ \E s \in Sports : StartLiveExtraction(s, TRUE)
  \/ \E c \in ConnIds : ConnOpen(c, TRUE)
  \/ \E c \in ConnIds, f \in MarketFrames : ConnMessage(c, f)

SpecMarkets == Init /\ [][NextMarkets]_vars

\* Patches whose positions array has an entry without groups, after a
\* position with a delta or at once.
BrokenOffers ==
  {[header |-> OfferHeader(e),
    positions |-> <<[groups |-> <<[name |-> StrMatchResult,
                                   selections |-> <<Delta(1, 1, k)>>]>>],
                    [position |-> 1]>>] : e \in EventIds, k \in Ordinals}
  \cup {[header |-> OfferHeader(e), positions |-> <<[position |-> 1]>>] :
          e \in EventIds}

\* Update frames whose processing runs to its end and update frames whose
\* processing throws.
AtomicFrames ==
  {SingleEventUpdate([header |-> [eventId |-> e], games |-> <<Group(1)>>]) :
     e \in EventIds}
  \cup {SingleEventUpdate([header |-> [eventId |-> e]]) : e \in EventIds}
  \cup {OfferFeedUpdate(PatchOf(e, 1, 1, 0)) : e \in EventIds}
  \cup {OfferFeedUpdate(u) : u \in BrokenOffers}

\* One connection that stays up while the feed sends updates and patches,
\* well-formed ones and ones that make their handler throw.
NextAtomic ==
  \/ \E s \in Sports : StartLiveExtraction(s, TRUE)
  \/ \E c \in ConnIds : ConnOpen(c, TRUE)
  \/ \E c \in ConnIds, f \in AtomicFrames : ConnMessage(c, f)
  \/ Tick

SpecAtomic == Init /\ [][NextAtomic]_vars

\* What the endpoint sends on a connection that is kept alive: the two
\* frames of the handshake, a pong and an update.
HeartbeatFrames ==
  {Frame("0{", TRUE, [pingInterval |-> p]) : p \in PingIntervals}
  \cup {Frame("40{", TRUE, [sid |-> s]) : s \in Sids}
  \cup {Frame("3", TRUE, NoBody),
        SingleEventUpdate([header |-> SeedHeader(1), games |-> <<>>])}

\* Sessions whose connections are kept alive by the ping timer, whose
\* handshake may never come, and that fail, close and are replaced.
NextHeartbeat ==
  \/ \E s \in Sports : StartLiveExtraction(s, TRUE)
  \/ StopLiveExtraction
  \/ \E c \in ConnIds : ConnOpen(c, TRUE)
  \/ \E c \in ConnIds, f \in HeartbeatFrames : ConnMessage(c, f)
  \/ \E c \in ConnIds : ConnError(c)
  \/ \E c \in ConnIds : ConnClose(c)
  \/ HandshakeTimeout
  \/ HandshakeRecheck
  \/ \E t \in TimerIds : ReconnectFire(t, TRUE)
  \/ \E t \in TimerIds : PingFire(t)

SpecHeartbeat == Init /\ [][NextHeartbeat]_vars

\* The start and stop endpoints of server.ts are called at any time, while
\* the bootstrap of a live extraction runs, fails or succeeds.
NextServer ==
  \/ \E s \in Sports, tok \in BOOLEAN : StartRequest(s, tok)
  \/ StopRequest
  \/ \E c \in ConnIds, tok \in BOOLEAN : ConnOpen(c, tok)
  \/ \E c \in ConnIds, f \in HandshakeFrames : ConnMessage(c, f)
  \/ \E c \in ConnIds : ConnectTimeout(c)
  \/ \E tok \in BOOLEAN : HandshakePoll(tok)
  \/ HandshakeTimeout
  \/ HandshakeRecheck
  \/ \E ok \in BOOLEAN, ids \in IdSeqs : FetchEventsDone(ok, ids)
  \/ FetchMarketsDone(NoMarkets)

SpecServer == Init /\ [][NextServer]_vars

\* Stream clients connect and disconnect while messages are broadcast.
NextStream ==
  \/ \E c \in ClientIds : StreamOpen(c)
  \/ \E c \in ClientIds : StreamClose(c)
  \/ \E thrown \in SUBSET ClientIds : Broadcast(thrown)

SpecStream == Init /\ [][NextStream]_vars

\* Callers of the token service and REST fetches of both services, sharing
\* the token and its coordinated refresh.
NextRest ==
  \/ \E k \in CallerIds, op \in TokenOps \cup FetchOps : Call(k, op)
  \/ \E k \in CallerIds, resp \in Responses : Response(k, resp)
  \/ \E k \in CallerIds : Settled(k)
  \/ \E p \in PromiseIds, life \in RemainingTimes : RefreshWrites(p, life)
  \/ \E p \in PromiseIds : RefreshReturns(p)
  \/ \E p \in PromiseIds : RefreshThrows(p)
  \/ \E left \in RemainingTimes : TokenExpires(left)

SpecRest == Init /\ [][NextRest]_vars

\* Pre-match league pagination, with the token service it asks before every
\* page and another caller that refreshes.
NextLeagues ==
  \/ Call(1, "getLeagues")
  \/ \E k \in CallerIds \ {1} : Call(k, "refreshTokenIfNeeded")
  \/ \E k \in CallerIds, resp \in LeagueResponses : Response(k, resp)
  \/ \E k \in CallerIds : PageDelayOver(k)
  \/ \E k \in CallerIds : Settled(k)
  \/ \E p \in PromiseIds, life \in RemainingTimes : RefreshWrites(p, life)
  \/ \E p \in PromiseIds : RefreshReturns(p)
  \/ \E p \in PromiseIds : RefreshThrows(p)
  \/ \E left \in RemainingTimes : TokenExpires(left)

SpecLeagues == Init /\ [][NextLeagues]_vars

\* The event lists a bulk pass is given: one event, and more than a batch.
BulkIdSeqs == {<<1>>, [i \in 1..MaxFetched |-> i]}

\* A pre-match pass of the data service, then a live bootstrap whose market
\* fetches succeed, come back empty or fail, in any order.
NextBulk ==
  \/ \E s \in Sports : StartLiveExtraction(s, TRUE)
  \/ \E c \in ConnIds : ConnOpen(c, TRUE)
  \/ \E c \in ConnIds, s \in Sids : ConnMessage(c, Frame("40{", TRUE, [sid |-> s]))
  \/ HandshakePoll(TRUE)
  \/ \E ids \in BulkIdSeqs : FetchEventsDone(TRUE, ids)
  \/ BulkBegin
  \/ \E ids \in BulkIdSeqs : DataFetchAll(ids)
  \/ \E i \in 1..MaxFetched : FetchStart(i)
  \/ \E i \in 1..MaxFetched, out \in Ended : FetchEnd(i, out)
  \/ PauseEnd

SpecBulk == Init /\ [][NextBulk]_vars

(* ----------------------------- properties ----------------------------- *)
\* The sockets that are open or opening.
Alive == {c \in ConnIds : conns[c].st \in {"connecting", "open"}}

\* What each 'open' event that can occur now would leave behind.
OpenOutcomes ==
  IF crashed THEN {}
  ELSE {onOpen(World, c, tok) :
          c \in {x \in ConnIds : conns[x].st = "connecting"}, tok \in BOOLEAN}

\* What each step of a bootstrap that can occur now would leave behind.
BootstrapOutcomes ==
  IF crashed THEN {}
  ELSE {onEventsFetched(World, TRUE, ids) :
          ids \in IF start.pc = "fetchEvents" THEN IdSeqs ELSE {}}
       \cup {onMarketsFetched(World, m) :
          m \in IF start.pc = "fetchMarkets" THEN {NoMarkets} ELSE {}}

\* C1: the resubscription a reconnect performs is written once the new
\* connection is Ready (its own 40{sid} received), for the session's sport and
\* for exactly the ids that were subscribed before, none missing, none extra.
ReconnectResubscribesWhenReady ==
  \A r \in OpenOutcomes :
    (r.obs.sub.by = "reconnect" /\ r.obs.sub.written) =>
      /\ r.obs.sub.ready
      /\ r.obs.sub.frames = SubscriptionFrames(currentSportId, subscribedEvents)
      /\ r.subscribedEvents = subscribedEvents

\* C2: subscription frames are written to a connection only after that
\* connection's own handshake confirmation frame was received, by a bootstrap
\* and by a reconnect alike.
SubscriptionOnlyWhenReady ==
  \A r \in OpenOutcomes \cup BootstrapOutcomes :
    r.obs.sub.written => r.obs.sub.ready

\* C3: between a stopLiveExtraction and the next startLiveExtraction no
\* heartbeat timer and no reconnect timer is live, the subscription
\* bookkeeping is empty and no connection is being opened.
StoppedIsQuiet ==
  ~isRunning =>
    /\ pingLive = {}
    /\ reconnectLive = {}
    /\ subscribedEvents = <<>>
    /\ \A c \in ConnIds : conns[c].st # "connecting"

\* C4: at most one connection created by the client is open or opening.
OneConnection == Cardinality(Alive) <= 1

\* C5: at most one heartbeat timer and at most one reconnect timer is live,
\* and a live timer is the one whose handle the client holds (a new timer is
\* started only after the previous one of its kind was cancelled).
OneTimerOfAKind ==
  /\ Cardinality(pingLive) <= 1
  /\ Cardinality(reconnectLive) <= 1
  /\ pingLive \subseteq {pingTimer}
  /\ reconnectLive \subseteq {reconnectTimer}

\* A heartbeat timer and a reconnect timer are live at once.
BothTimersLive == pingTimer \in pingLive /\ reconnectTimer \in reconnectLive

\* C6: a 'close' event, and also an 'error' event of a connection that was
\* open, leaves the heartbeat stopped, the client Disconnected and a reconnect
\* scheduled.
CloseAndErrorDisconnect ==
  [][\A c \in ConnIds :
       (ConnError(c) \/ ConnClose(c)) =>
         /\ pingLive' = {}
         /\ pingTimer' = NoTimer
         /\ ~isConnected'
         /\ reconnectTimer' \in reconnectLive']_vars

\* C7: every failed reconnect attempt (the socket fails, the connect timer
\* fires on a socket that has not opened, or the socket opens and the
\* resubscription is not made while the process lives on) leaves a reconnect
\* timer scheduled.
RetryAfterEveryFailure ==
  [][\A c \in ConnIds :
       (/\ conns[c].st = "connecting"
        /\ conns[c].awaiter = "reconnect"
        /\ conns[c].promise = "pending"
        /\ \/ ConnFail(c)
           \/ ConnectTimeout(c)
           \/ /\ currentSportId # NoSport
              /\ \E tok \in BOOLEAN :
                   /\ onOpen(World, c, tok).obs.sub.by # "reconnect"
                   /\ ~onOpen(World, c, tok).crashed
                   /\ ConnOpen(c, tok))
       => reconnectTimer' \in reconnectLive']_vars

\* C8: only a 40{...} frame whose JSON carries a session id turns the
\* handshake-complete flag on (a bare 40, 0{...}, 3 and 42[...] never do), and
\* a 0{...} frame records the heartbeat interval, 25000 when absent, and
\* starts the heartbeat.
HandshakeOnlyBySessionFrame ==
  [][\A c \in ConnIds, f \in HandshakeFrames :
       ConnMessage(c, f) =>
         /\ (isHandshakeComplete' /\ ~isHandshakeComplete) =>
              (f.head = "40{" /\ f.ok /\ "sid" \in DOMAIN f.body)
         /\ (f.head = "0{" /\ f.ok) =>
              /\ pingInterval' = IF "pingInterval" \in DOMAIN f.body
                                 THEN f.body.pingInterval
                                 ELSE DefaultPingInterval
              /\ pingTimer' \in pingLive']_vars

\* C9: when the handshake timeout fires the bootstrap fails with the timeout
\* error: the error callback gets it, the call is over without a REST fetch,
\* the snapshot is not reseeded and no subscription frame is sent.
HandshakeTimeoutFailsBootstrap ==
  (start.pc = "waitHandshake" /\ ~crashed) =>
    LET r == onHandshakeTimeout(World)
    IN  /\ r.obs.err = "Handshake timeout"
        /\ r.obs.call = "failed"
        /\ r.start.pc = "idle"
        /\ r.obs.sub = NoSub
        /\ r.obs.sink = 0
        /\ r.liveEvents = liveEvents
        /\ r.liveMarkets = liveMarkets
        /\ r.lastUpdateTime = lastUpdateTime
        /\ r.subscribedEvents = subscribedEvents

\* A bootstrap waits for a handshake that has not completed, and its timeout
\* reports the failure.
HandshakeTimesOut ==
  /\ start.pc = "waitHandshake"
  /\ ~isHandshakeComplete
  /\ onHandshakeTimeout(World).obs.err = "Handshake timeout"

\* C10: a single-event-update for an event of the snapshot leaves every
\* header field it does not carry with its previous value, and (the update
\* and the record both having a games array) gives the fields it carries
\* the update's values.
PartialHeaderUpdate ==
  \A c \in {x \in ConnIds : ~crashed /\ conns[x].st \in {"open", "closing"}},
     u \in EventUpdates :
    ("eventId" \in DOMAIN u.header /\ u.header.eventId \in DOMAIN liveEvents) =>
      LET e == u.header.eventId
          old == liveEvents[e].header
          r == onMessage(World, c, SingleEventUpdate(u))
          new == r.liveEvents[e].header
      IN  /\ \A k \in DOMAIN old \ DOMAIN u.header :
               k \in DOMAIN new /\ new[k] = old[k]
          /\ ("games" \in DOMAIN u /\ "games" \in DOMAIN liveEvents[e]) =>
               /\ DOMAIN new = DOMAIN old \cup DOMAIN u.header
               /\ \A k \in DOMAIN u.header : new[k] = u.header[k]

\* A partial update has changed matchTime of a fully seeded header.
PartialUpdateMerged ==
  \E e \in DOMAIN liveEvents :
    liveEvents[e].header = [eventId |-> e, matchTime |-> "2H", state |-> "ACTIVE"]

\* The sockets whose 'message' handler can run now.
Receiving ==
  {c \in ConnIds : ~crashed /\ conns[c].st \in {"open", "closing"}}

\* The event records that have a games array.
WithGames == {e \in DOMAIN liveEvents : "games" \in DOMAIN liveEvents[e]}

GameIds(games) == {games[i].gameTemplateId : i \in 1..Len(games)}

\* C11: a single-event-update for an event with a record keeps every group
\* at its position; a group whose gameTemplateId the update carries takes the
\* incoming group's fields and keeps its others, a group whose id the update
\* does not carry is unchanged, the incoming groups with new ids follow the
\* existing ones in the update's order; for an event without a record the
\* incoming record is the entry.  No other event changes.
GroupsMergedByTemplateId ==
  \A c \in Receiving, u \in GameUpdates :
    LET e == u.header.eventId
        r == onMessage(World, c, SingleEventUpdate(u))
    IN  /\ \A x \in DOMAIN liveEvents \ {e} :
             x \in DOMAIN r.liveEvents /\ r.liveEvents[x] = liveEvents[x]
        /\ e \notin DOMAIN liveEvents => r.liveEvents[e] = u
        /\ e \in WithGames =>
             LET old == liveEvents[e].games
                 new == r.liveEvents[e].games
                 IsNew(g) == g.gameTemplateId \notin GameIds(old)
             IN  /\ Len(new) >= Len(old)
                 /\ \A i \in 1..Len(old) :
                      /\ new[i].gameTemplateId = old[i].gameTemplateId
                      /\ old[i].gameTemplateId \notin GameIds(u.games) =>
                           new[i] = old[i]
                      /\ \A j \in 1..Len(u.games) :
                           u.games[j].gameTemplateId = old[i].gameTemplateId =>
                             new[i] = Spread(old[i], u.games[j])
                 /\ SubSeq(new, Len(old) + 1, Len(new)) = SelectSeq(u.games, IsNew)

\* An event whose first group was overwritten by a group object without a
\* markets array (it kept its markets) and that had a group appended.
GroupOverwrittenAndAppended ==
  \E e \in WithGames :
    LET games == liveEvents[e].games
    IN  /\ Len(games) >= 2
        /\ games[1].marketName = StrRenamed
        /\ "markets" \in DOMAIN games[1]
        /\ games[2].gameTemplateId = MaxGroupId

\* The selections of an event record: <<group, market, selection>> indices.
SelectionsAt(games) ==
  {p \in (1..Len(games)) \X (1..MaxMarketId) \X (1..(MaxOrdinal + 2)) :
     /\ "markets" \in DOMAIN games[p[1]]
     /\ p[2] <= Len(games[p[1]].markets)
     /\ p[3] <= Len(games[p[1]].markets[p[2]].selections)}

\* C12: a patch naming a selection of an event's record (its group, market
\* and selection id) gives that selection the patch's price and state and
\* changes nothing else of the record: not the selection's name, not a
\* sibling, not another market or group, not the header.
PatchChangesOnlyTarget ==
  \A c \in Receiving, e \in WithGames :
    \A p \in SelectionsAt(liveEvents[e].games) :
      LET games == liveEvents[e].games
          group == games[p[1]]
          market == group.markets[p[2]]
          target == market.selections[p[3]]
          r == onMessage(World, c, OfferFeedUpdate(
                 PatchFor(e, group.gameTemplateId, market.marketId,
                          target.selectionId)))
      IN  (/\ group.gameTemplateId \in GroupIds
           /\ FindGameIndex(games, group.gameTemplateId) = p[1]
           /\ \A k \in 1..p[2] :
                group.markets[k].marketId = market.marketId => k = p[2]
           /\ \A k \in 1..p[3] :
                market.selections[k].selectionId = target.selectionId => k = p[3])
          => r.liveEvents[e] =
               [liveEvents[e] EXCEPT
                  !.games[p[1]].markets[p[2]].selections[p[3]] =
                     [target EXCEPT !.price = 2, !.state = "SUSPENDED"]]

\* The ids of a list of groups, position by position.
IdShape(groups) ==
  [i \in 1..Len(groups) |->
     [gameTemplateId |-> groups[i].gameTemplateId,
      marketIds |-> IF "markets" \in DOMAIN groups[i]
                    THEN [k \in 1..Len(groups[i].markets) |->
                            groups[i].markets[k].marketId]
                    ELSE <<>>]]

MarketsOf(w, e) == IF e \in DOMAIN w.liveMarkets THEN w.liveMarkets[e] ELSE <<>>

\* The deltas of a patch.
DeltasOf(u) ==
  UNION {UNION {Range(SelectionsOf(u.positions[i].groups[j])) :
                  j \in 1..Len(u.positions[i].groups)} :
           i \in 1..Len(u.positions)}

\* new is old with prices and states possibly changed and with selections
\* appended, each one a delta of u for market m with an id old did not have.
OnlyPatched(old, new, m, u) ==
  /\ Len(new) >= Len(old)
  /\ \A i \in 1..Len(old) :
       /\ new[i].selectionId = old[i].selectionId
       /\ new[i].name = old[i].name
  /\ \A i \in (Len(old) + 1)..Len(new) :
       /\ \A k \in 1..Len(old) : old[k].selectionId # new[i].selectionId
       /\ \E d \in DeltasOf(u) :
            /\ d.marketId = m
            /\ d.selectionId = new[i].selectionId
            /\ d.price = new[i].price
            /\ d.state = new[i].state

\* No group of deltas of u finds its group and a market in it.
NothingLocated(groups, u) ==
  \A i \in 1..Len(u.positions) : \A j \in 1..Len(u.positions[i].groups) :
    LET sels == SelectionsOf(u.positions[i].groups[j])
        gi == IF Len(sels) = 0 THEN 0
              ELSE FindGroup(groups, sels[1].gameTemplateId)
    IN  \/ gi = 0
        \/ sels[1].gameTemplateId = 0
        \/ \A n \in 1..Len(sels) : \A k \in 1..Len(groups[gi].markets) :
             groups[gi].markets[k].marketId # sels[n].marketId

SynthesisFromPatch ==
  \A c \in Receiving, u \in OfferUpdates :
    u.header.eventId \notin DOMAIN liveEvents =>
      LET e == u.header.eventId
          r == onMessage(World, c, OfferFeedUpdate(u))
      IN  /\ e \in DOMAIN r.liveEvents
          /\ e \in DOMAIN r.liveMarkets
          /\ r.liveEvents[e].header.eventId = e
          /\ r.liveEvents[e].games = r.liveMarkets[e]
          /\ Len(r.liveMarkets[e]) = Len(u.positions)
          /\ \A i \in 1..Len(u.positions) :
               LET gs == u.positions[i].groups
                   tree == r.liveMarkets[e][i].markets
               IN  /\ Len(tree) = Len(gs)
                   /\ \A j \in 1..Len(gs) :
                        LET sels == SelectionsOf(gs[j])
                        IN  /\ Len(tree[j].selections) = Len(sels)
                            /\ \A n \in 1..Len(sels) :
                                 /\ tree[j].selections[n].selectionId =
                                      sels[n].selectionId
                                 /\ tree[j].selections[n].price = sels[n].price
                                 /\ tree[j].selections[n].state = sels[n].state
          /\ \A x \in DOMAIN liveEvents : r.liveEvents[x] = liveEvents[x]

\* An event made from a patch of one position of one group of one delta is
\* in both maps.
EventSynthesized ==
  \E e \in DOMAIN liveEvents \cap DOMAIN liveMarkets :
    /\ liveEvents[e].header = OfferHeader(e)
    /\ liveEvents[e].games = liveMarkets[e]
    /\ Len(liveMarkets[e]) = 1
    /\ Len(liveMarkets[e][1].markets) = 1
    /\ Len(liveMarkets[e][1].markets[1].selections) = 1
    /\ liveMarkets[e][1].markets[1].selections[1].selectionId = SelId(1, 0)

\* The label the table gives to ordinal k of a market of the given kind.
TableLabel(kind, k) ==
  IF kind = "double chance"
  THEN IF k = 0 THEN <<"1", "X">> ELSE IF k = 1 THEN <<"1", "2">>
       ELSE <<"X", "2">>
  ELSE IF kind = "over/under"
  THEN IF k = 0 THEN StrUnder ELSE StrOverLabel
  ELSE IF k = 0 THEN <<"1">> ELSE IF k = 1 THEN <<"X">> ELSE <<"2">>

\* C15: the names synthesis gives follow the table: in a market whose name
\* contains "double chance" in any case the ordinals 0, 1, 2 are named 1X,
\* 12, X2; in an over/under market (total goals, over) 0 and 1 are named
\* Under and Over; in any other market 0, 1, 2 are named 1, X, 2.
SelectionNamesFollowTable ==
  \A c \in Receiving, u \in OfferUpdates :
    (/\ u.header.eventId \notin DOMAIN liveEvents
     /\ Len(u.positions) = 1
     /\ Len(u.positions[1].groups) = 1
     /\ u.positions[1].groups[1] \in NamedGroups) =>
      LET e == u.header.eventId
          g == u.positions[1].groups[1]
          lower == toLowerCase(g.name)
          kind == IF includes(lower, StrDoubleChance) THEN "double chance"
                  ELSE IF includes(lower, StrTotalGoals) \/ includes(lower, StrOver)
                  THEN "over/under"
                  ELSE "three-way"
          named == onMessage(World, c, OfferFeedUpdate(u))
                     .liveEvents[e].games[1].markets[1].selections
      IN  \A n \in 1..Len(named) :
            \A k \in 0..(IF kind = "over/under" THEN 1 ELSE 2) :
              named[n].selectionId = SelId(1, k) =>
                named[n].name = TableLabel(kind, k)

Unique(seq, key) ==
  \A i, j \in 1..Len(seq) : seq[i][key] = seq[j][key] => i = j

UniqueTree(groups) ==
  /\ Unique(groups, "gameTemplateId")
  /\ \A i \in 1..Len(groups) :
       "markets" \in DOMAIN groups[i] =>
         /\ Unique(groups[i].markets, "marketId")
         /\ \A k \in 1..Len(groups[i].markets) :
              Unique(groups[i].markets[k].selections, "selectionId")

\* C17: in every event's record and in every entry of the markets map no two
\* groups have the same gameTemplateId, no two markets of a group the same
\* marketId, no two selections of a market the same selectionId.
UniqueIds ==
  /\ \A e \in WithGames : UniqueTree(liveEvents[e].games)
  /\ \A e \in DOMAIN liveMarkets : UniqueTree(liveMarkets[e])

\* The frames of every kind a connection may deliver.
SinkFrames ==
  HandshakeFrames \cup DataFrames \cup MarketFrames

\* f is a single-event-update or an offer-feed-update-live whose JSON parses
\* and whose merge goes through.
MergeSucceeds(f) ==
  /\ f.head = "42["
  /\ f.ok
  /\ f.body.name \in {"single-event-update", "offer-feed-update-live"}
  /\ f.body.payload.ok
  /\ "header" \in DOMAIN f.body.payload.data
  /\ f.body.name = "single-event-update" =>
       LET data == f.body.payload.data
           eventId == IF "eventId" \in DOMAIN data.header
                      THEN data.header.eventId ELSE UndefinedKey
       IN  mergeEventData(World, eventId, data).thrown = ""

\* What the steps of a bootstrap that seed the snapshot would leave behind.
SeedOutcomes ==
  IF crashed THEN {}
  ELSE {onEventsFetched(World, TRUE, ids) :
          ids \in IF start.pc = "fetchEvents" THEN {<<>>} ELSE {}}
       \cup {onMarketsFetched(World, m) :
          m \in IF start.pc = "fetchMarkets" THEN MarketSeeds(start.events)
                ELSE {}}

\* r has given the Sink, once, the snapshot it ends with, dated now.
SinkGotSnapshot(r) ==
  /\ r.obs.sink = 1
  /\ r.obs.snap = [events |-> r.liveEvents, markets |-> r.liveMarkets,
                   lastUpdate |-> now]
  /\ r.lastUpdateTime = now
  /\ now >= lastUpdateTime

\* C16: a frame that triggers a successful merge invokes the Sink exactly
\* once, with the whole snapshot as the merge left it and lastUpdate set to
\* the current time, and so does the seed of a bootstrap; every other frame
\* (0{...}, 40, 40{...}, 3, a subscriptions ack, an unknown or malformed
\* frame, a merge that fails) invokes no Sink and leaves the snapshot as it
\* was.
SinkOncePerMerge ==
  /\ \A c \in Receiving, f \in SinkFrames :
       LET r == onMessage(World, c, f)
       IN  IF MergeSucceeds(f) THEN SinkGotSnapshot(r)
           ELSE /\ r.obs.sink = 0
                /\ r.liveEvents = liveEvents
                /\ r.liveMarkets = liveMarkets
                /\ r.lastUpdateTime = lastUpdateTime
  /\ \A r \in SeedOutcomes : SinkGotSnapshot(r)
  /\ (~crashed /\ start.pc = "fetchEvents") =>
       \A ids \in SessionIdSeqs \ {<<>>} :
         onEventsFetched(World, TRUE, ids).obs.sink = 0

\* After a seed with event 1 a frame has brought another event at a later
\* time.
MergedAfterSeed ==
  /\ DOMAIN liveEvents = {1, MaxEventId}
  /\ liveEvents[1].header = SeedHeader(1)
  /\ lastUpdateTime = MaxTime
  /\ Receiving # {}

\* C18: no step other than the reseed of a startLiveExtraction call (an
\* inbound frame, a close, a reconnect, stopLiveExtraction) removes an event
\* id from the events map or from the markets map, as long as the process
\* lives.
SnapshotNeverShrinks ==
  [][\/ crashed'
     \/ \E ids \in SessionIdSeqs : FetchEventsDone(TRUE, ids)
     \/ \E m \in MarketSeeds(start.events) : FetchMarketsDone(m)
     \/ /\ DOMAIN liveEvents \subseteq DOMAIN liveEvents'
        /\ DOMAIN liveMarkets \subseteq DOMAIN liveMarkets']_vars

\* The session was stopped and the snapshot is still there.
SnapshotSurvivesStop ==
  /\ ~isRunning
  /\ ~crashed
  /\ start.pc = "idle"
  /\ ws = NoConn
  /\ DOMAIN liveEvents # {}
  /\ DOMAIN liveMarkets # {}

\* r holds the events ids with the groups m fetched for them and nothing
\* else, and seeding r again with the same gives the same.
Replaced(r, ids, m) ==
  LET again == storeInitialData(r, [i \in 1..Len(ids) |-> EventData(ids[i])], m)
  IN  /\ DOMAIN r.liveEvents = Range(ids)
      /\ \A e \in Range(ids) :
           r.liveEvents[e] = [header |-> SeedHeader(e),
                              games |-> IF e \in DOMAIN m THEN m[e] ELSE <<>>]
      /\ r.liveMarkets = m
      /\ again.liveEvents = r.liveEvents
      /\ again.liveMarkets = r.liveMarkets
      /\ again.sharedMarkets = r.sharedMarkets

\* C19: the reseed of a bootstrap leaves in the events map exactly the
\* fetched events, each with its fetched groups, and in the markets map
\* exactly the fetched groups, whatever the maps held before; applying the
\* same payload a second time changes neither map.
ReseedReplacesSnapshot ==
  ~crashed =>
    /\ start.pc = "fetchEvents" =>
         Replaced(onEventsFetched(World, TRUE, <<>>), <<>>, NoMarkets)
    /\ start.pc = "fetchMarkets" =>
         \A m \in MarketSeeds(start.events) :
           Replaced(onMarketsFetched(World, m), start.events, m)

\* A reseed is about to drop an event that is not among the fetched ones.
ReseedDropsOldEvent ==
  /\ ~crashed
  /\ start.pc = "fetchMarkets"
  /\ \E e \in DOMAIN liveEvents : e \notin Range(start.events)
  /\ \E m \in MarketSeeds(start.events) :
       DOMAIN onMarketsFetched(World, m).liveEvents = Range(start.events)

\* The Sink gets the seed before the call's subscription frames go out.
SeedDeliveredBeforeSubscribing ==
  \A r \in SeedOutcomes :
    r.obs.sub.by = "start" =>
      /\ r.obs.sub.sunk = 1
      /\ r.obs.snap.events = r.liveEvents
      /\ r.obs.snap.markets = r.liveMarkets

\* C20 as stated: the call creates its connection only once its REST fetch
\* and the seeding are done, and the Sink has the seed before the call's
\* subscription frames are sent.
SeedBeforeConnect ==
  [][/\ (start'.pc = "connecting" /\ start.pc # "connecting") =>
          start.pc \in {"fetchEvents", "fetchMarkets"}
     /\ SeedDeliveredBeforeSubscribing]_vars

\* C20 as the code has it: a startLiveExtraction call begins by creating its
\* connection and fetches nothing and seeds nothing in that step; it starts
\* the REST fetch of the events only after its connection opened and the
\* handshake flag was seen set; the markets are fetched after the events;
\* the seed is stored and given to the Sink before the call's subscription
\* frames are sent.
ConnectThenSeedThenSubscribe ==
  [][/\ (start.pc = "idle" /\ start'.pc # "idle") =>
          /\ start'.pc = "connecting"
          /\ liveEvents' = liveEvents
          /\ liveMarkets' = liveMarkets
     /\ (start'.pc = "fetchEvents" /\ start.pc # "fetchEvents") =>
          /\ start.pc \in {"connecting", "waitHandshake"}
          /\ isHandshakeComplete'
     /\ (start'.pc = "fetchMarkets" /\ start.pc # "fetchMarkets") =>
          start.pc = "fetchEvents"
     /\ SeedDeliveredBeforeSubscribing]_vars

\* A call has seeded event 1 and subscribed to it.
SeededAndSubscribed ==
  /\ start.pc = "idle"
  /\ isRunning
  /\ subscribedEvents = <<1>>
  /\ DOMAIN liveEvents = {1}
  /\ liveEvents[1].header = SeedHeader(1)

\* Frames whose JSON does not parse: after each prefix that is followed by
\* JSON, and inside the payload string of the two merge messages.
MalformedFrames ==
  {Frame(h, FALSE, NoBody) : h \in {"0{", "40{", "42["}}
  \cup {Frame("42[", TRUE, [name |-> n,
                            payload |-> [ok |-> FALSE, data |-> NoBody]]) :
          n \in {"single-event-update", "offer-feed-update-live"}}

\* C26: a frame whose JSON is malformed, the outer one or the one inside the
\* payload string, changes no field of the service (flags, timers,
\* subscription bookkeeping, both maps, lastUpdate), reports nothing, does
\* not invoke the Sink, and every frame that follows has the effect it would
\* have had without it.
MalformedFrameDropped ==
  \A c \in Receiving, f \in MalformedFrames :
    LET r == onMessage(World, c, f)
    IN  /\ Is(r)
        /\ r.obs = NoObs
        /\ r.thrown = ""
        /\ \A g \in HeartbeatFrames \cup DataFrames :
             onMessage(r, c, g) = onMessage(World, c, g)

\* A connection that has completed its handshake and holds a ping timer
\* receives frames while the snapshot holds an event.
ReceivingWithTimerAndSnapshot ==
  /\ \E c \in Receiving : c = ws /\ conns[c].hs
  /\ pingTimer # NoTimer
  /\ isHandshakeComplete
  /\ isConnected
  /\ DOMAIN liveEvents # {}

\* 42[...] frames with another name than the two merge messages, whatever
\* they carry.
OtherNameFrames ==
  {Frame("42[", TRUE, [name |-> n, payload |-> p]) :
     n \in {"subscriptions", "unknown"},
     p \in {[ok |-> FALSE, data |-> NoBody], [ok |-> TRUE, data |-> NoBody]}
           \cup {[ok |-> TRUE, data |-> u] : u \in EventUpdates}}

\* C27: a 42[...] frame named neither single-event-update nor
\* offer-feed-update-live changes no field of the service (snapshot,
\* lastUpdate, connection state) and does not invoke the Sink.
OtherNamesIgnored ==
  \A c \in Receiving, f \in OtherNameFrames :
    LET r == onMessage(World, c, f)
    IN  /\ Is(r)
        /\ r.obs = NoObs
        /\ r.thrown = ""

\* A frame arrives on the current connection after its handshake, the
\* snapshot being empty: a merge message would create an event now.
ReceivingWithEmptySnapshot ==
  /\ \E c \in Receiving : c = ws /\ conns[c].hs
  /\ isHandshakeComplete
  /\ DOMAIN liveEvents = {}
  /\ \E u \in EventUpdates :
       DOMAIN onMessage(World, ws, SingleEventUpdate(u)).liveEvents # {}

\* C28: whenever the ping timer's callback hands a "2" to the socket, the
\* client is connected and the current socket is open and has completed its
\* own handshake; and the callback changes no field of the service.
PingOnlyWhenReady ==
  (~crashed /\ pingLive # {}) =>
    LET r == onPingTimer(World)
    IN  /\ r.obs.ping # "none" =>
              /\ ws # NoConn
              /\ isConnected
              /\ isHandshakeComplete
              /\ conns[ws].st = "open"
              /\ conns[ws].hs
        /\ Is(r)

\* Patches of one group whose two deltas name game templates of their own.
MixedPatches ==
  {[header |-> OfferHeader(e),
    positions |-> <<[groups |-> <<[name |-> StrMatchResult,
        selections |-> <<Delta(g1, 1, 0), Delta(g2, 1, MaxOrdinal)>>]>>]>>] :
     e \in EventIds, g1 \in GroupIds, g2 \in GroupIds}

\* C30: after a patch for an event with a record, every selection of the
\* event's market groups that the patch changed or added is named by a delta
\* of the patch that carries the gameTemplateId of the selection's group,
\* the marketId of its market and its selectionId.
DeltaAppliedInOwnGroup ==
  \A c \in Receiving, u \in MixedPatches :
    LET e == u.header.eventId
        old == MarketsOf(World, e)
        new == MarketsOf(onMessage(World, c, OfferFeedUpdate(u)), e)
    IN  e \in DOMAIN liveEvents =>
          \A i \in 1..Len(new) : \A k \in 1..Len(new[i].markets) :
            \A n \in 1..Len(new[i].markets[k].selections) :
              \/ /\ i <= Len(old)
                 /\ k <= Len(old[i].markets)
                 /\ n <= Len(old[i].markets[k].selections)
                 /\ new[i].markets[k].selections[n]
                      = old[i].markets[k].selections[n]
              \/ \E d \in DeltasOf(u) :
                   /\ d.gameTemplateId = new[i].gameTemplateId
                   /\ d.marketId = new[i].markets[k].marketId
                   /\ d.selectionId = new[i].markets[k].selections[n].selectionId

\* The refreshes in flight: the pending promises of performTokenRefresh.
InFlight == {p \in PromiseIds : promises[p].st = "pending"}

\* The token service's part of the state.
TokenPart(r) ==
  [tokenData |-> r.tokenData, refreshInProgress |-> r.refreshInProgress,
   refreshPromise |-> r.refreshPromise, promises |-> r.promises]

\* C23: a fetch issues at most two requests; when the answer to its second
\* request is a failure (another 401, another status, an errorCode) the fetch
\* ends with an error, issues no request and asks for no refresh.
AtMostTwoRequests ==
  \A k \in CallerIds :
    calls[k].op \in FetchOps =>
      /\ calls[k].requests <= 2
      /\ (calls[k].pc \in {"request", "retry"} /\ calls[k].requests = 2) =>
           \A resp \in Responses :
             (resp.status # 200 \/ resp.errorCode # "null") =>
               LET r == onResponse(Rest, k, resp)
               IN  /\ r.calls[k].pc = "done"
                   /\ r.calls[k].out = "error"
                   /\ r.calls[k].requests = 2
                   /\ TokenPart(r) = TokenPart(Rest)

\* C24: when the answer to a request has a status other than 2xx and 401, or
\* is a 200 whose body has a non-null errorCode, the fetch ends at once with
\* an error: no request follows and the token service is not called.
ErrorsSurfaceAtOnce ==
  \A k \in CallerIds :
    (calls[k].op \in FetchOps /\ calls[k].pc \in {"request", "retry"}) =>
      \A resp \in Responses :
        (resp.status \notin {200, 401}
           \/ (resp.status = 200 /\ resp.errorCode # "null")) =>
          LET r == onResponse(Rest, k, resp)
          IN  /\ r.calls[k].pc = "done"
              /\ r.calls[k].out = "error"
              /\ r.calls[k].requests = calls[k].requests
              /\ TokenPart(r) = TokenPart(Rest)

\* C25: at most one performTokenRefresh is in flight; while one is, the
\* flag and the promise of the service name it, every caller that awaits a
\* refresh awaits that one, and a call of refreshTokenIfNeeded or
\* waitForTokenRefresh starts nothing: it is given that promise, or the token
\* that refresh has just stored.
SingleFlightRefresh ==
  /\ Cardinality(InFlight) <= 1
  /\ \A p \in InFlight :
       /\ refreshInProgress
       /\ refreshPromise = p
       /\ \A k \in CallerIds :
            (calls[k].await # NoPromise
               /\ promises[calls[k].await].st = "pending") => calls[k].await = p
       /\ \A a \in {refreshTokenIfNeeded(Rest), waitForTokenRefresh(Rest)} :
            /\ a.rest = Rest
            /\ ~a.leader
            /\ \/ a.await = p
               \/ /\ a.await = NoPromise
                  /\ promises[p].value # 0
                  /\ tokenData.accessToken = promises[p].value
  /\ \A k \in CallerIds :
       calls[k].await # NoPromise => promises[calls[k].await].st # "free"

\* Every caller awaits the one refresh in flight.
AllCallersOnOneRefresh ==
  \E p \in InFlight : \A k \in CallerIds : calls[k].await = p

\* The positions of the pass whose per-event fetch has started and not ended.
BulkInFlight == {i \in 1..Len(bulk.events) : bulk.st[i] \in Started}

\* C21: at no time are more than batchSize (5) per-event market fetches of a
\* bulk pass in flight, whatever the number of events; no fetch of a later
\* batch has started while a fetch of an earlier batch has not ended (with
\* groups, empty or failed); no event is fetched twice, and when the pass is
\* done every event has been fetched exactly once.
BatchBound ==
  LET n == Len(bulk.events)
  IN  /\ Cardinality(BulkInFlight) <= batchSize
      /\ \A i, j \in 1..n :
           (BatchNo(i) < BatchNo(j) /\ bulk.st[j] # "todo") =>
             bulk.st[i] \in Ended
      /\ \A i \in 1..n :
           /\ bulk.calls[i] <= 1
           /\ bulk.calls[i] = 1 <=> bulk.st[i] \in {"fetching"} \cup Ended
      /\ \A i, j \in 1..n : bulk.events[i] = bulk.events[j] => i = j
      /\ bulk.phase = "done" => \A i \in 1..n : bulk.calls[i] = 1

\* A whole batch of the live bootstrap is being fetched at once and more
\* events wait for the next batch.
FullBatchInFlight ==
  /\ bulk.svc = "live"
  /\ Len(bulk.events) > batchSize
  /\ \A i \in 1..batchSize : bulk.st[i] = "fetching"
  /\ bulk.st[batchSize + 1] = "todo"

\* C22: a per-event market fetch of the live bootstrap that fails leaves the
\* other fetches of the pass as they are and the pass running, and is not
\* called again; when the pass is done every event was fetched once, also
\* those of the batches after the failure, each event whose fetch gave groups
\* is in the snapshot with them, and each event whose fetch failed (or gave
\* none) is in the events map with an empty market list and has no entry in
\* the markets map.
FailedFetchSeedsEmpty ==
  LET n == Len(bulk.events)
  IN  /\ \A i \in 1..n :
           (bulk.phase = "batch" /\ bulk.st[i] = "fetching") =>
             LET b == fetchEnd(bulk, i, "failed")
             IN  /\ b.phase \in {"batch", "pause", "done"}
                 /\ b.calls = bulk.calls
                 /\ \A j \in 1..n \ {i} : b.st[j] = bulk.st[j]
                 /\ \A e \in DOMAIN bulk.markets :
                      e \in DOMAIN b.markets /\ b.markets[e] = bulk.markets[e]
                 /\ \A j \in 1..n :
                      b.st[j] = "ok" /\ BatchNo(j) < bulk.batchIndex =>
                        bulk.events[j] \in DOMAIN b.markets
      /\ \A i \in 1..n : bulk.calls[i] <= 1
      /\ (bulk.svc = "live" /\ bulk.phase = "done") =>
           \A i \in 1..n :
             LET e == bulk.events[i]
             IN  /\ bulk.calls[i] = 1
                 /\ bulk.st[i] \in Ended
                 /\ e \in DOMAIN liveEvents
                 /\ liveEvents[e].games =
                      (IF bulk.st[i] = "ok" THEN <<Group(1)>> ELSE <<>>)
                 /\ e \in DOMAIN liveMarkets <=> bulk.st[i] = "ok"
                 /\ bulk.st[i] = "ok" => liveMarkets[e] = <<Group(1)>>

\* The first fetch of the first batch failed, the other events have their
\* groups and the last batch was fetched.
FailureInFirstBatch ==
  /\ bulk.svc = "live"
  /\ bulk.phase = "done"
  /\ Len(bulk.events) > batchSize
  /\ bulk.st[1] = "failed"
  /\ \A i \in 2..Len(bulk.events) : bulk.st[i] = "ok"
  /\ liveEvents[1].games = <<>>
  /\ DOMAIN liveMarkets = 2..Len(bulk.events)

\* The provider holds no token and the fetch of caller k waits, before any
\* request, for a refresh that has failed.
RefusedCredential(k) ==
  /\ tokenData.accessToken = 0
  /\ calls[k].op \in FetchOps
  /\ calls[k].requests = 0
  /\ calls[k].await # NoPromise
  /\ promises[calls[k].await].st = "rejected"

\* While the provider holds no token, startLiveExtraction creates no socket,
\* gives the error to the error callback and fails, and a fetch of the live
\* service throws before any request.
LiveNeedsCredential ==
  tokenData.accessToken = 0 =>
    /\ \A s \in Sports :
         LET w == startLiveExtraction(World, s, tokenData.accessToken # 0)
         IN  /\ w.conns = conns
             /\ w.ws = ws
             /\ w.obs.err # ""
             /\ w.obs.call = "failed"
             /\ w.start.pc = "idle"
    /\ \A k \in CallerIds, op \in LiveOps :
         LET c == Begin(Rest, k, op).calls[k]
         IN  c.requests = 0 /\ c.out = "error"

\* C29: an operation that needs a credential while the Credential Provider
\* has none fails with an error to its caller and without a network action:
\* startLiveExtraction opens no connection and reports through the error
\* callback, and a REST fetch issues no request and ends with an error.
NoCredentialNoAction ==
  /\ LiveNeedsCredential
  /\ \A k \in CallerIds :
       RefusedCredential(k) =>
         LET c == onSettled(Rest, k).calls[k]
         IN  c.requests = 0 /\ c.out = "error"

\* The upstream's answer to a request whose token it rejects.
Unauthorized == [status |-> 401, errorCode |-> "null"]

\* C31: the request a fetch issues after a 401, at once or after the refresh
\* it waited for, carries another access token than the one that was just
\* rejected.
RetryCarriesNewToken ==
  \A k \in CallerIds :
    /\ calls[k].pc \in {"request", "retry"} =>
         LET c == onResponse(Rest, k, Unauthorized).calls[k]
         IN  c.requests > calls[k].requests => c.sent # calls[k].sent
    /\ (calls[k].pc = "refresh" /\ calls[k].await # NoPromise
        /\ promises[calls[k].await].st \in {"resolved", "rejected"}) =>
         LET c == onSettled(Rest, k).calls[k]
         IN  c.requests > calls[k].requests => c.sent # calls[k].sent

\* The refresh state of the token service.
RefreshPart(r) ==
  [tokenData |-> r.tokenData, refreshInProgress |-> r.refreshInProgress,
   refreshPromise |-> r.refreshPromise, promises |-> r.promises]

\* C32: isTokenValid is true exactly when a token exists and more than five
\* minutes remain to its expiry; refreshTokenIfNeeded called while the token
\* is valid returns the current credential at once and leaves the token, the
\* refresh-in-progress flag, the shared promise and every refresh as they
\* were, starting none.
ValidTokenReturnedAsIs ==
  /\ isTokenValid(Rest) <=>
       (tokenData # NoToken /\ tokenData.remaining >= FiveMinutes + 1)
  /\ isTokenValid(Rest) =>
       /\ refreshTokenIfNeeded(Rest).await = NoPromise
       /\ refreshTokenIfNeeded(Rest).rest = Rest
       /\ \A k \in CallerIds :
            LET r == Begin(Rest, k, "refreshTokenIfNeeded")
            IN  /\ r.calls[k].pc = "done"
                /\ r.calls[k].out = "token"
                /\ r.calls[k].value = tokenData.accessToken
                /\ RefreshPart(r) = RefreshPart(Rest)

\* While a refresh that has stored its token has not returned, a call of
\* refreshTokenIfNeeded was given the valid token; and a token at the
\* threshold is not valid.
ValidTokenDuringRefresh ==
  /\ isTokenValid(Rest)
  /\ tokenData.remaining = FiveMinutes + 1
  /\ refreshInProgress
  /\ \E k \in CallerIds :
       /\ calls[k].op = "refreshTokenIfNeeded"
       /\ calls[k].pc = "done"
       /\ calls[k].out = "token"
       /\ calls[k].value = tokenData.accessToken
  /\ ~isTokenValid([Rest EXCEPT !.tokenData.remaining = FiveMinutes])

\* What the step that completes a bootstrap would leave behind: the seed of
\* an empty event list, or the end of the last market fetch with any result.
BootstrapEnds ==
  IF crashed THEN {}
  ELSE {onEventsFetched(World, TRUE, ids) :
          ids \in IF start.pc = "fetchEvents" THEN {<<>>} ELSE {}}
       \cup {onMarketsFetched(World, fetchEnd(bulk, i, out).markets) :
               i \in {j \in 1..Len(bulk.events) :
                        /\ start.pc = "fetchMarkets"
                        /\ bulk.svc = "live"
                        /\ bulk.phase = "batch"
                        /\ bulk.st[j] = "fetching"
                        /\ fetchEnd(bulk, j, "ok").phase = "done"},
               out \in Ended}

\* The events of the bootstrap that is being completed.
BootstrapEvents == IF start.pc = "fetchMarkets" THEN start.events ELSE <<>>

PaginationStopsAtEmpty ==
  \A k \in CallerIds :
    (calls[k].op \in LeagueOps /\ calls[k].pc \in {"request", "retry"}) =>
      /\ calls[k].page < PageLimit
      /\ ~calls[k].sawEmpty
      /\ calls[k].page < PageLimit - 1 =>
           LET c == onResponse(Rest, k,
                      [status |-> 500, errorCode |-> "null", leagues |-> 0]).calls[k]
           IN  c.page = calls[k].page + 1 /\ c.pc \in {"request", "token"}

\* C35: for each event of the snapshot the market groups in its event record
\* (games) are the groups the markets map holds for its id, none if the map
\* has no entry for it: the same groups with the same markets, selections,
\* prices and states.
ViewsAgree ==
  \A e \in DOMAIN liveEvents :
    liveEvents[e].games =
      (IF e \in DOMAIN liveMarkets THEN liveMarkets[e] ELSE <<>>)

\* C36: an update frame is applied as a whole or not at all: either
\* lastUpdate is set to the current time and the Sink is invoked with the
\* snapshot, or the events map and the markets map are exactly as they were
\* before the frame and the Sink is not invoked.
FramesAtomic ==
  \A c \in Receiving, f \in AtomicFrames :
    LET r == onMessage(World, c, f)
    IN  \/ /\ r.obs.sink = 1
           /\ r.lastUpdateTime = now
           /\ r.obs.snap.events = r.liveEvents
           /\ r.obs.snap.markets = r.liveMarkets
        \/ /\ r.obs.sink = 0
           /\ r.lastUpdateTime = lastUpdateTime
           /\ r.liveEvents = liveEvents
           /\ r.liveMarkets = liveMarkets

\* C37: once the promise of waitForHandshake has settled, by a check that
\* found the handshake complete or by the 10 s timer, no checkHandshake
\* re-check of that call remains scheduled.
NoRecheckAfterSettled ==
  /\ ~checkHandshakeLive
  /\ start.pc = "waitHandshake" =>
       /\ ~onHandshakeTimeout(World).checkHandshakeLive
       /\ isHandshakeComplete =>
            \A tok \in BOOLEAN :
              ~startAfterHandshake(World, tok).checkHandshakeLive

\* C38: a refresh that has settled, with a token or with an error, leaves
\* the single-flight state free once the caller that started it has resumed:
\* the flag is false and the shared promise is cleared, and the next
\* refreshTokenIfNeeded on an invalid token starts a new performTokenRefresh.
\* The flag is set only while the caller that set it has still to resume.
FailedRefreshDoesNotWedge ==
  /\ refreshInProgress =>
       \E k \in CallerIds : calls[k].leader /\ calls[k].await = refreshPromise
  /\ \A k \in CallerIds :
       (/\ calls[k].leader
        /\ promises[calls[k].await].st \in {"resolved", "rejected"}) =>
         LET r == refreshFinally(Rest, k)
             a == refreshTokenIfNeeded(r)
         IN  /\ ~r.refreshInProgress
             /\ r.refreshPromise = NoPromise
             /\ (/\ ~isTokenValid(r)
                 /\ \E p \in PromiseIds : r.promises[p].st = "free") =>
                  /\ a.leader
                  /\ a.await \notin {NoPromise, calls[k].await}
                  /\ r.promises[a.await].st = "free"
                  /\ a.rest.promises[a.await] = [st |-> "pending", value |-> 0]
                  /\ a.rest.refreshInProgress
                  /\ a.rest.refreshPromise = a.await

\* A refresh is in flight after an earlier one failed a caller.
RefreshAfterFailedRefresh ==
  /\ refreshInProgress
  /\ refreshPromise \in InFlight
  /\ \E k \in CallerIds :
       /\ calls[k].pc = "done"
       /\ calls[k].out = "failed"
       /\ calls[k].op = "refreshTokenIfNeeded"

\* What each step that can occur now and ends the startLiveExtraction call
\* with an error would leave behind.
StartFailures ==
  IF crashed THEN {}
  ELSE {r \in
         {onHandshakeTimeout(World) :
            x \in IF start.pc = "waitHandshake" THEN {0} ELSE {}}
         \cup {startAfterHandshake(World, FALSE) :
            x \in IF start.pc = "waitHandshake" /\ isHandshakeComplete
                  THEN {0} ELSE {}}
         \cup {onEventsFetched(World, FALSE, <<>>) :
            x \in IF start.pc = "fetchEvents" THEN {0} ELSE {}} :
         r.obs.call = "failed"}

\* C39: a start request while isRunning changes nothing, neither the
\* extraction state nor the live service; a stop request while not running
\* changes nothing; and a live start whose bootstrap fails does not leave
\* isRunning true.
ExtractionStateFaithful ==
  /\ isRunning =>
       \A s \in Sports, tok \in BOOLEAN : extractionStart(World, s, tok) = World
  /\ ~isRunning => extractionStop(World) = World
  /\ \A r \in StartFailures : ~r.isRunning

\* C40: the set of stream clients is exactly the set of clients whose
\* request has not closed, so that no broadcast writes to a client that has
\* disconnected.
ClientsAreConnected ==
  /\ clients = streams
  /\ \A c \in streams : c \notin onStreamClose(clients, c)

====
